---- MODULE Spec2Model ----
(***************************************************************************)
(* Model of the IAL-Project02-2021 containers:                             *)
(*   - the binary search tree, iterative (src/btree/iter/btree.c) and      *)
(*     recursive (src/btree/rec/btree.c) variants, run in lockstep;        *)
(*   - the hash table with explicitly linked synonyms                      *)
(*     (src/hashtable/hashtable.c).                                        *)
(* Heaps are functions from addresses to objects; NULL is 0; malloc hands  *)
(* out the lowest free address; free removes the address from the heap.    *)
(***************************************************************************)
EXTENDS Integers, Sequences, FiniteSets, TLC

VARIABLES treeI, treeR, bstLast, ht, HT_SIZE, htLast, call

vars == <<treeI, treeR, bstLast, ht, HT_SIZE, htLast, call>>
bstVars == <<treeI, treeR, bstLast>>
htVars == <<ht, HT_SIZE, htLast>>

NULL == 0

\* ------------------------------------------------------------------ bounds
\* number of distinct tree keys ('a', 'b', ...) the bounded tree model draws
NumKeys == 4
\* number of entry addresses / key-copy addresses of the hash table heap
MaxItems == 3

\* ------------------------------------------------------- program constants
MAXSTACK == 30
MAX_HT_SIZE == 101

\* keys are char ordinals starting at 'a' (97)
Keys == 97..(96 + NumKeys)
\* values a caller may insert with key k: the ordinal position of k
\* ('a' -> 1, 'b' -> 2, ...), and for 'b' also 0, so that a value is overwritten
ValuesOf(k) == IF k = 98 THEN {0, 2} ELSE {k - 96}

\* ===================================================================== BST
\* A heap cell holds a bst_node_t when it is allocated (used); a cell that is
\* not allocated holds nothing a program may read.
FreeCell == [used |-> FALSE, key |-> 0, value |-> 0, left |-> NULL, right |-> NULL]

\* A tree state: root handle, node heap, the addresses freed by the running
\* call, whether free() was called on an address that is not allocated, and
\* whether malloc has no memory to give to the running call, and whether the
\* running call dereferenced a NULL pointer.  For the auxiliary stacks of
\* the iterative variant: sfail says which stack allocation of the running
\* call returns NULL (0: none, 1: the first, 2: the second), leak whether
\* the call returned without freeing a stack it allocated.  twoKids counts
\* how often the running bst_delete took its branch for a node with two
\* children, nested calls included.
\* The heap has the addresses 1..size.
EmptyTree(size) ==
  [root |-> NULL, mem |-> [a \in 1..size |-> FreeCell], freed |-> {},
   dfree |-> FALSE, fail |-> FALSE, segv |-> FALSE, sfail |-> 0, leak |-> FALSE,
   twoKids |-> 0]

\* the addresses malloc handed out and free did not get back
Allocated(mem) == {a \in DOMAIN mem : mem[a].used}

\* start of a call: forget the previous call's record of freed addresses;
\* malloc has memory
Enter(T) ==
  [T EXCEPT !.freed = {}, !.fail = FALSE, !.segv = FALSE, !.sfail = 0,
            !.leak = FALSE, !.twoKids = 0]

\* start of a call during which the n-th allocation of a stack returns NULL
EnterStackFailing(T, n) == [Enter(T) EXCEPT !.sfail = n]

\* start of a call during which malloc has no memory
EnterFailing(T) == [Enter(T) EXCEPT !.fail = TRUE]

\* malloc(sizeof(bst_node_t)): NULL when there is no memory, else the lowest
\* address not in use
Malloc(T) ==
  IF T.fail \/ Allocated(T.mem) = DOMAIN T.mem THEN NULL
  ELSE CHOOSE a \in DOMAIN T.mem :
         ~T.mem[a].used /\ \A b \in 1..(a - 1) : T.mem[b].used

NewNode(mem, a, key, value) ==
  [mem EXCEPT ![a] = [used |-> TRUE, key |-> key, value |-> value,
                      left |-> NULL, right |-> NULL]]

\* free(p)
Free(T, a) ==
  IF a \in DOMAIN T.mem /\ T.mem[a].used
  THEN [T EXCEPT !.mem[a] = FreeCell, !.freed = @ \cup {a}]
  ELSE [T EXCEPT !.dfree = TRUE]

\* a bst_node_t ** : the root handle, or the left/right field of a node
RootSlot == [node |-> NULL, side |-> "root"]
SlotOf(a, side) == [node |-> a, side |-> side]
Load(T, slot) ==
  IF slot.side = "root" THEN T.root
  ELSE IF slot.side = "left" THEN T.mem[slot.node].left
  ELSE T.mem[slot.node].right
Store(T, slot, p) ==
  IF slot.side = "root" THEN [T EXCEPT !.root = p]
  ELSE IF slot.side = "left" THEN [T EXCEPT !.mem[slot.node].left = p]
  ELSE [T EXCEPT !.mem[slot.node].right = p]

\* the bst_node_t ** that is NULL, and a read or write through a handle
NullHandle == [node |-> NULL, side |-> "null"]
DerefHandle(T, tree) == IF tree = NullHandle THEN [T EXCEPT !.segv = TRUE] ELSE T

\* ----------------------------------------------------------- iterative BST
\* bst_search that stores 0 in *value when the loop ends without a match
RECURSIVE IterSearchLoop_ClearsOnMiss(_, _, _, _)
IterSearchLoop_ClearsOnMiss(mem, tmpRoot, key, old) ==
  IF tmpRoot = NULL THEN [found |-> FALSE, value |-> 0]
  ELSE IF key < mem[tmpRoot].key
  THEN IterSearchLoop_ClearsOnMiss(mem, mem[tmpRoot].left, key, old)
  ELSE IF mem[tmpRoot].key < key
  THEN IterSearchLoop_ClearsOnMiss(mem, mem[tmpRoot].right, key, old)
  ELSE [found |-> TRUE, value |-> mem[tmpRoot].value]

\* bst_search: the while loop; old is the content of *value before the call
RECURSIVE IterSearchLoop(_, _, _, _)
IterSearchLoop(mem, tmpRoot, key, old) ==
  IF tmpRoot = NULL THEN [found |-> FALSE, value |-> old]
  ELSE IF key < mem[tmpRoot].key THEN IterSearchLoop(mem, mem[tmpRoot].left, key, old)
  ELSE IF mem[tmpRoot].key < key THEN IterSearchLoop(mem, mem[tmpRoot].right, key, old)
  ELSE [found |-> TRUE, value |-> mem[tmpRoot].value]

IterSearch(T, tree, key, old) == IterSearchLoop(T.mem, tree, key, old)

\* mutant of IterInsertStep: an existing key keeps its old value
IterInsertStep_KeepsOldValue(st, key, value) ==
  IF st.isDone THEN st
  ELSE IF st.rootPtr # NULL
  THEN LET n == st.T.mem[st.rootPtr]
       IN IF key < n.key
          THEN [st EXCEPT !.prevRootPtr = st.rootPtr, !.rootPtr = n.left]
          ELSE IF n.key < key
          THEN [st EXCEPT !.prevRootPtr = st.rootPtr, !.rootPtr = n.right]
          ELSE [st EXCEPT !.prevRootPtr = st.rootPtr, !.isDone = TRUE]
  ELSE LET newNode == Malloc(st.T)
           T1 == [st.T EXCEPT !.mem = NewNode(st.T.mem, newNode, key, value)]
           T2 == IF st.prevRootPtr = st.rootPtr
                 THEN [T1 EXCEPT !.root = newNode]
                 ELSE IF key < T1.mem[st.prevRootPtr].key
                      THEN [T1 EXCEPT !.mem[st.prevRootPtr].left = newNode]
                      ELSE [T1 EXCEPT !.mem[st.prevRootPtr].right = newNode]
       IN IF newNode = NULL THEN [st EXCEPT !.isDone = TRUE]
          ELSE [st EXCEPT !.T = T2, !.isDone = TRUE]

\* bst_insert that links the new node on the other side of its parent
IterInsertStep_AttachesOtherSide(st, key, value) ==
  IF st.isDone THEN st
  ELSE IF st.rootPtr # NULL
  THEN LET n == st.T.mem[st.rootPtr]
       IN IF key < n.key
          THEN [st EXCEPT !.prevRootPtr = st.rootPtr, !.rootPtr = n.left]
          ELSE IF n.key < key
          THEN [st EXCEPT !.prevRootPtr = st.rootPtr, !.rootPtr = n.right]
          ELSE [st EXCEPT !.prevRootPtr = st.rootPtr,
                          !.T = [st.T EXCEPT !.mem[st.rootPtr].value = value],
                          !.isDone = TRUE]
  ELSE LET newNode == Malloc(st.T)
           T1 == [st.T EXCEPT !.mem = NewNode(st.T.mem, newNode, key, value)]
           T2 == IF st.prevRootPtr = st.rootPtr
                 THEN [T1 EXCEPT !.root = newNode]
                 ELSE IF key < T1.mem[st.prevRootPtr].key
                      THEN [T1 EXCEPT !.mem[st.prevRootPtr].right = newNode]
                      ELSE [T1 EXCEPT !.mem[st.prevRootPtr].left = newNode]
       IN IF newNode = NULL THEN [st EXCEPT !.isDone = TRUE]
          ELSE [st EXCEPT !.T = T2, !.isDone = TRUE]

\* bst_insert: one turn of the loop "while (!isDone)" on the loop state
\* st = [T, prevRootPtr, rootPtr, isDone]; a state that fails the loop test
\* is left as is
IterInsertStep(st, key, value) ==
  IF st.isDone THEN st
  ELSE IF st.rootPtr # NULL
  THEN LET n == st.T.mem[st.rootPtr]
       IN IF key < n.key
          THEN [st EXCEPT !.prevRootPtr = st.rootPtr, !.rootPtr = n.left]
          ELSE IF n.key < key
          THEN [st EXCEPT !.prevRootPtr = st.rootPtr, !.rootPtr = n.right]
          ELSE [st EXCEPT !.prevRootPtr = st.rootPtr,
                          !.T = [st.T EXCEPT !.mem[st.rootPtr].value = value],
                          !.isDone = TRUE]
  ELSE LET newNode == Malloc(st.T)
           T1 == [st.T EXCEPT !.mem = NewNode(st.T.mem, newNode, key, value)]
           T2 == IF st.prevRootPtr = st.rootPtr
                 THEN [T1 EXCEPT !.root = newNode]
                 ELSE IF key < T1.mem[st.prevRootPtr].key
                      THEN [T1 EXCEPT !.mem[st.prevRootPtr].left = newNode]
                      ELSE [T1 EXCEPT !.mem[st.prevRootPtr].right = newNode]
       IN IF newNode = NULL THEN [st EXCEPT !.isDone = TRUE]
          ELSE [st EXCEPT !.T = T2, !.isDone = TRUE]

\* up to n turns of the loop, stopping when the loop test fails
RECURSIVE IterInsertRun(_, _, _, _)
IterInsertRun(st, key, value, n) ==
  IF n = 0 THEN st
  ELSE IF n = 1 THEN IterInsertStep(st, key, value)
  ELSE LET half == IterInsertRun(st, key, value, n \div 2)
       IN IF half.isDone THEN half
          ELSE IterInsertRun(half, key, value, n - (n \div 2))

\* bst_insert: every turn but the last goes one node down, so the number of
\* nodes plus one bounds the number of turns
IterInsert(T, key, value) ==
  IterInsertRun([T |-> T, prevRootPtr |-> NULL, rootPtr |-> T.root,
                 isDone |-> FALSE],
                key, value, Cardinality(Allocated(T.mem)) + 1).T

\* bst_delete: the descent "while (rootPtr->key != key)"; returns <<prev, cur>>
RECURSIVE IterFind(_, _, _, _)
IterFind(mem, prevRootPtr, rootPtr, key) ==
  IF mem[rootPtr].key = key THEN <<prevRootPtr, rootPtr>>
  ELSE IF key < mem[rootPtr].key THEN IterFind(mem, rootPtr, mem[rootPtr].left, key)
  ELSE IterFind(mem, rootPtr, mem[rootPtr].right, key)

\* bst_replace_by_rightmost without its loop: the root of the subtree is
\* taken for the rightmost node
Rightmost_StopsAtFirst(mem, rootPtr) == rootPtr

\* the rightmost node below rootPtr: "while (rootPtr->right != NULL)"
RECURSIVE Rightmost(_, _)
Rightmost(mem, rootPtr) ==
  IF mem[rootPtr].right # NULL THEN Rightmost(mem, mem[rootPtr].right) ELSE rootPtr

\* bst_delete that frees the node without writing the link that holds it
IterRelink_LeavesLink(T, tree, prevRootPtr, rootPtr, p) == T

\* mutant of IterRelink: the parent's left field is written whichever child
\* the node is
IterRelink_AlwaysLeft(T, tree, prevRootPtr, rootPtr, p) ==
  IF prevRootPtr = NULL THEN Store(T, tree, p)
  ELSE [T EXCEPT !.mem[prevRootPtr].left = p]

\* relink used by the leaf / one-child cases: *tree when the node is the
\* (sub)tree root, else the parent's field that points to the node
IterRelink(T, tree, prevRootPtr, rootPtr, p) ==
  IF prevRootPtr = NULL THEN Store(T, tree, p)
  ELSE IF T.mem[prevRootPtr].left = rootPtr
       THEN [T EXCEPT !.mem[prevRootPtr].left = p]
       ELSE [T EXCEPT !.mem[prevRootPtr].right = p]

RECURSIVE IterDeleteAt(_, _, _)
\* mutant of IterReplaceByRightmost: the key of the rightmost node is copied
\* to the target, its value is not
IterReplaceByRightmost_KeyOnly(T, target, tree) ==
  LET rootPtr == Rightmost(T.mem, Load(T, tree))
      T1 == [T EXCEPT !.mem[target].key = T.mem[rootPtr].key]
  IN IterDeleteAt(T1, tree, T.mem[rootPtr].key)

\* bst_replace_by_rightmost(target, tree)
IterReplaceByRightmost(T, target, tree) ==
  LET rootPtr == Rightmost(T.mem, Load(T, tree))
      T1 == [T EXCEPT !.mem[target].key = T.mem[rootPtr].key,
                      !.mem[target].value = T.mem[rootPtr].value]
  IN IterDeleteAt(T1, tree, T.mem[rootPtr].key)

\* mutant of IterDeleteAt: the search that guards the deletion is not made
\* for the key asked for; an absent key deletes the node at *tree
IterDeleteAt_AbsentDeletesRoot(T, tree, key) ==
  IF Load(T, tree) = NULL THEN T
  ELSE LET key2 == IF IterSearch(T, Load(T, tree), key, 0).found THEN key
                   ELSE T.mem[Load(T, tree)].key
           pc == IterFind(T.mem, NULL, Load(T, tree), key2)
           prevRootPtr == pc[1]
           rootPtr == pc[2]
           n == T.mem[rootPtr]
       IN IF n.right = NULL /\ n.left = NULL
          THEN Free(IterRelink(T, tree, prevRootPtr, rootPtr, NULL), rootPtr)
          ELSE IF n.left # NULL /\ n.right = NULL
          THEN Free(IterRelink(T, tree, prevRootPtr, rootPtr, n.left), rootPtr)
          ELSE IF n.right # NULL /\ n.left = NULL
          THEN Free(IterRelink(T, tree, prevRootPtr, rootPtr, n.right), rootPtr)
          ELSE IterReplaceByRightmost([T EXCEPT !.twoKids = @ + 1], rootPtr,
                                      SlotOf(rootPtr, "left"))

\* bst_delete(tree, key) with tree a slot
IterDeleteAt(T, tree, key) ==
  IF ~IterSearch(T, Load(T, tree), key, 0).found THEN T
  ELSE LET pc == IterFind(T.mem, NULL, Load(T, tree), key)
           prevRootPtr == pc[1]
           rootPtr == pc[2]
           n == T.mem[rootPtr]
       IN IF n.right = NULL /\ n.left = NULL
          THEN Free(IterRelink(T, tree, prevRootPtr, rootPtr, NULL), rootPtr)
          ELSE IF n.left # NULL /\ n.right = NULL
          THEN Free(IterRelink(T, tree, prevRootPtr, rootPtr, n.left), rootPtr)
          ELSE IF n.right # NULL /\ n.left = NULL
          THEN Free(IterRelink(T, tree, prevRootPtr, rootPtr, n.right), rootPtr)
          ELSE IterReplaceByRightmost([T EXCEPT !.twoKids = @ + 1], rootPtr,
                                      SlotOf(rootPtr, "left"))

IterDelete(T, key) == IterDeleteAt(T, RootSlot, key)

\* ------------------------------------------------ auxiliary stack (stack.h)
\* stack_bst_t: items[MAXSTACK] and top; the model keeps the used prefix
stack_init == <<>>
stack_empty(stack) == Len(stack) = 0
stack_top(stack) == stack[Len(stack)]
stack_pop(stack) == SubSeq(stack, 1, Len(stack) - 1)
\* a push on a full stack stores nothing: items[] has MAXSTACK slots
stack_push(stack, item) ==
  IF Len(stack) = MAXSTACK THEN stack ELSE Append(stack, item)

\* bst_dispose that takes the new root from the top of the stack without
\* stack_bst_pop
IterDisposeStep_TopWithoutPop(st) ==
  IF st.rootPtr = NULL /\ stack_empty(st.stack) THEN st
  ELSE IF st.rootPtr = NULL
       THEN [st EXCEPT !.rootPtr = stack_top(st.stack)]
       ELSE LET n == st.T.mem[st.rootPtr]
            IN [T |-> Free(st.T, st.rootPtr),
                rootPtr |-> n.left,
                stack |-> IF n.right # NULL THEN stack_push(st.stack, n.right)
                          ELSE st.stack]

\* bst_dispose: one turn of the loop
\* "while (rootPtr != NULL || !stack_bst_empty(stack))" on the loop state
\* st = [T, rootPtr, stack]; a state that fails the loop test is left as is
IterDisposeStep(st) ==
  IF st.rootPtr = NULL /\ stack_empty(st.stack) THEN st
  ELSE IF st.rootPtr = NULL
       THEN [st EXCEPT !.rootPtr = stack_top(st.stack), !.stack = stack_pop(st.stack)]
       ELSE LET n == st.T.mem[st.rootPtr]
            IN [T |-> Free(st.T, st.rootPtr),
                rootPtr |-> n.left,
                stack |-> IF n.right # NULL THEN stack_push(st.stack, n.right)
                          ELSE st.stack]

\* up to n turns of the loop, stopping when the loop test fails
RECURSIVE IterDisposeRun(_, _)
IterDisposeRun(st, n) ==
  IF n = 0 THEN st
  ELSE IF n = 1 THEN IterDisposeStep(st)
  ELSE LET half == IterDisposeRun(st, n \div 2)
       IN IF half.rootPtr = NULL /\ stack_empty(half.stack) THEN half
          ELSE IterDisposeRun(half, n - (n \div 2))

\* bst_dispose: every turn frees a node or pops one, so twice the number of
\* nodes bounds the number of turns; then *tree = NULL
IterDispose(T) ==
  LET st == IterDisposeRun([T |-> T, rootPtr |-> T.root, stack |-> stack_init],
                           2 * Cardinality(Allocated(T.mem)) + 1)
  IN [st.T EXCEPT !.root = NULL]

\* bst_dispose as a call on the tree state T.  The result of
\* malloc(sizeof(stack_bst_t)) is passed to stack_bst_init untested; when it
\* is NULL the stack operations work on address 0 (segv).  The build either
\* stops the process at that access ("crash": the tree as it was) or lets
\* the access through ("continue": the loop runs as on a stack).
DisposeOutcomes == {"crash", "continue"}
IterDisposeCall(T, outcome) ==
  IF T.sfail # 1 THEN IterDispose(T)
  ELSE IF outcome = "crash" THEN [T EXCEPT !.segv = TRUE]
  ELSE [IterDispose(T) EXCEPT !.segv = TRUE]

\* ------------------------------------------------------------ recursive BST
RECURSIVE RecSearchAt(_, _, _, _)
RecSearchAt(mem, tree, key, old) ==
  IF tree = NULL THEN [found |-> FALSE, value |-> old]
  ELSE IF mem[tree].key = key THEN [found |-> TRUE, value |-> mem[tree].value]
  ELSE IF key < mem[tree].key THEN RecSearchAt(mem, mem[tree].left, key, old)
  ELSE RecSearchAt(mem, mem[tree].right, key, old)

RecSearch(T, tree, key, old) == RecSearchAt(T.mem, tree, key, old)

\* bst_insert that, on reaching a node with the key, puts a new node in its
\* place
RecInsertStep_ReplacesNodeOnEqual(st, key, value) ==
  IF st.isDone THEN st
  ELSE LET rootPtr == Load(st.T, st.tree)
       IN IF rootPtr = NULL
          THEN LET a == Malloc(st.T)
                   T1 == [st.T EXCEPT !.mem = NewNode(st.T.mem, a, key, value)]
               IN IF a = NULL THEN [st EXCEPT !.isDone = TRUE]
                  ELSE [st EXCEPT !.T = IF Load(T1, st.tree) = NULL
                                        THEN Store(T1, st.tree, a) ELSE T1,
                                  !.isDone = TRUE]
          ELSE IF key < st.T.mem[rootPtr].key
          THEN [st EXCEPT !.tree = SlotOf(rootPtr, "left")]
          ELSE IF st.T.mem[rootPtr].key < key
          THEN [st EXCEPT !.tree = SlotOf(rootPtr, "right")]
          ELSE LET a == Malloc(st.T)
                   T1 == [st.T EXCEPT !.mem[a] =
                            [st.T.mem[rootPtr] EXCEPT !.value = value]]
               IN IF a = NULL THEN [st EXCEPT !.isDone = TRUE]
                  ELSE [st EXCEPT !.T = Store(T1, st.tree, a), !.isDone = TRUE]

\* bst_insert: one activation of bst_insert(tree, key, value) on the state
\* st = [T, tree, isDone].  The recursive call is the last statement of the
\* activation, so the chain of activations is a descent from slot to slot.
RecInsertStep(st, key, value) ==
  IF st.isDone THEN st
  ELSE LET rootPtr == Load(st.T, st.tree)
       IN IF rootPtr = NULL
          THEN LET a == Malloc(st.T)
                   T1 == [st.T EXCEPT !.mem = NewNode(st.T.mem, a, key, value)]
               IN IF a = NULL THEN [st EXCEPT !.isDone = TRUE]
                  ELSE [st EXCEPT !.T = IF Load(T1, st.tree) = NULL
                                        THEN Store(T1, st.tree, a) ELSE T1,
                                  !.isDone = TRUE]
          ELSE IF key < st.T.mem[rootPtr].key
          THEN [st EXCEPT !.tree = SlotOf(rootPtr, "left")]
          ELSE IF st.T.mem[rootPtr].key < key
          THEN [st EXCEPT !.tree = SlotOf(rootPtr, "right")]
          ELSE [st EXCEPT !.T = [st.T EXCEPT !.mem[rootPtr].value = value],
                          !.isDone = TRUE]

\* up to n nested activations
RECURSIVE RecInsertRun(_, _, _, _)
RecInsertRun(st, key, value, n) ==
  IF n = 0 THEN st
  ELSE IF n = 1 THEN RecInsertStep(st, key, value)
  ELSE LET half == RecInsertRun(st, key, value, n \div 2)
       IN IF half.isDone THEN half
          ELSE RecInsertRun(half, key, value, n - (n \div 2))

\* bst_insert(tree, key, value) with tree a slot: every activation but the
\* last goes one node down
RecInsertAt(T, tree, key, value) ==
  RecInsertRun([T |-> T, tree |-> tree, isDone |-> FALSE],
               key, value, Cardinality(Allocated(T.mem)) + 1).T

RecInsert(T, key, value) == RecInsertAt(T, RootSlot, key, value)

RECURSIVE RecDeleteAt(_, _, _)
RECURSIVE RecReplaceByRightmost(_, _, _)
\* bst_replace_by_rightmost(target, tree)
RecReplaceByRightmost(T, target, tree) ==
  LET rootPrt == Load(T, tree)
  IN IF T.mem[rootPrt].right # NULL
     THEN RecReplaceByRightmost(T, target, SlotOf(rootPrt, "right"))
     ELSE LET T1 == [T EXCEPT !.mem[target].key = T.mem[rootPrt].key,
                              !.mem[target].value = T.mem[rootPrt].value]
          IN RecDeleteAt(T1, tree, T.mem[rootPrt].key)

\* bst_delete that stores the left child into *tree when the node has a
\* right child only
RECURSIVE RecDeleteAt_DropsRightChild(_, _, _)
RecDeleteAt_DropsRightChild(T, tree, key) ==
  LET rootPrt == Load(T, tree)
  IN IF rootPrt = NULL THEN T
     ELSE IF key < T.mem[rootPrt].key
     THEN RecDeleteAt_DropsRightChild(T, SlotOf(rootPrt, "left"), key)
     ELSE IF T.mem[rootPrt].key < key
     THEN RecDeleteAt_DropsRightChild(T, SlotOf(rootPrt, "right"), key)
     ELSE LET n == T.mem[rootPrt]
          IN IF n.left = NULL /\ n.right = NULL
             THEN Free(Store(T, tree, NULL), rootPrt)
             ELSE IF n.right # NULL /\ n.left = NULL
             THEN Free(Store(T, tree, n.left), rootPrt)
             ELSE IF n.right = NULL /\ n.left # NULL
             THEN Free(Store(T, tree, n.left), rootPrt)
             ELSE RecReplaceByRightmost([T EXCEPT !.twoKids = @ + 1], rootPrt,
                                        SlotOf(Load(T, tree), "left"))

\* bst_delete(tree, key) with tree a slot
RecDeleteAt(T, tree, key) ==
  LET rootPrt == Load(T, tree)
  IN IF rootPrt = NULL THEN T
     ELSE IF key < T.mem[rootPrt].key THEN RecDeleteAt(T, SlotOf(rootPrt, "left"), key)
     ELSE IF T.mem[rootPrt].key < key THEN RecDeleteAt(T, SlotOf(rootPrt, "right"), key)
     ELSE LET n == T.mem[rootPrt]
          IN IF n.left = NULL /\ n.right = NULL
             THEN Free(Store(T, tree, NULL), rootPrt)
             ELSE IF n.right # NULL /\ n.left = NULL
             THEN Free(Store(T, tree, n.right), rootPrt)
             ELSE IF n.right = NULL /\ n.left # NULL
             THEN Free(Store(T, tree, n.left), rootPrt)
             ELSE RecReplaceByRightmost([T EXCEPT !.twoKids = @ + 1], rootPrt,
                                        SlotOf(Load(T, tree), "left"))

RecDelete(T, key) == RecDeleteAt(T, RootSlot, key)

\* bst_dispose: the activations of bst_dispose(tree) as a call stack; an
\* activation is [tree, pc], pc naming the statement it runs next.  One step
\* runs the next statement of the innermost activation; st = [T, stack].
RecDisposeStep(st) ==
  IF st.stack = <<>> THEN st
  ELSE LET top == Len(st.stack)
           f == st.stack[top]
           rest == SubSeq(st.stack, 1, top - 1)
           Activation(slot) == [tree |-> slot, pc |-> "test"]
       IN IF f.pc = "test"
          THEN IF Load(st.T, f.tree) = NULL
               THEN [st EXCEPT !.stack = rest]
               ELSE [st EXCEPT !.stack =
                       rest \o <<[f EXCEPT !.pc = "right"],
                                 Activation(SlotOf(Load(st.T, f.tree), "left"))>>]
          ELSE IF f.pc = "right"
          THEN [st EXCEPT !.stack =
                  rest \o <<[f EXCEPT !.pc = "free"],
                            Activation(SlotOf(Load(st.T, f.tree), "right"))>>]
          ELSE [T |-> Store(Free(st.T, Load(st.T, f.tree)), f.tree, NULL),
                stack |-> rest]

\* up to n steps, stopping when the outermost activation has returned
RECURSIVE RecDisposeRun(_, _)
RecDisposeRun(st, n) ==
  IF n = 0 THEN st
  ELSE IF n = 1 THEN RecDisposeStep(st)
  ELSE LET half == RecDisposeRun(st, n \div 2)
       IN IF half.stack = <<>> THEN half
          ELSE RecDisposeRun(half, n - (n \div 2))

\* bst_dispose(tree) with tree a slot: three steps for every node and one
\* for every empty slot below it
RecDisposeAt(T, tree) ==
  RecDisposeRun([T |-> T, stack |-> <<[tree |-> tree, pc |-> "test"]>>],
                4 * Cardinality(Allocated(T.mem)) + 1).T

RecDispose(T) == RecDisposeAt(T, RootSlot)

\* ------------------------------------------- the operations on a handle
\* The entry of each operation that takes a bst_node_t **tree, which may be
\* NULL; past its NULL check the operation reads or writes *tree.
\* bst_init, the same code in both variants
BstInitOn(T, tree) ==
  IF tree # NullHandle THEN Store(DerefHandle(T, tree), tree, NULL) ELSE T

IterInsertOn(T, tree, key, value) ==
  IF tree = NullHandle THEN T ELSE IterInsert(DerefHandle(T, tree), key, value)

\* bst_delete without its NULL check: it reads *tree
IterDeleteOn_NoNullCheck(T, tree, key) ==
  LET T1 == DerefHandle(T, tree)
  IN IF T1.segv THEN T1 ELSE IterDeleteAt(T1, tree, key)

IterDeleteOn(T, tree, key) ==
  IF tree = NullHandle THEN T ELSE IterDeleteAt(DerefHandle(T, tree), tree, key)

IterDisposeOn(T, tree) ==
  IF tree = NullHandle THEN T ELSE IterDispose(DerefHandle(T, tree))

IterReplaceByRightmostOn(T, target, tree) ==
  IF tree = NullHandle THEN T
  ELSE IterReplaceByRightmost(DerefHandle(T, tree), target, tree)

RecInsertOn(T, tree, key, value) ==
  IF tree = NullHandle THEN T
  ELSE RecInsertAt(DerefHandle(T, tree), tree, key, value)

RecDeleteOn(T, tree, key) ==
  IF tree = NullHandle THEN T ELSE RecDeleteAt(DerefHandle(T, tree), tree, key)

RecDisposeOn(T, tree) ==
  IF tree = NullHandle THEN T ELSE RecDisposeAt(DerefHandle(T, tree), tree)

RecReplaceByRightmostOn(T, target, tree) ==
  IF tree = NullHandle THEN T
  ELSE RecReplaceByRightmost(DerefHandle(T, tree), target, tree)

\* -------------------------------------------------------------- traversals
\* bst_print_node(node): the output is the sequence of pairs <<key, value>>
bst_print_node(mem, node) == <<mem[node].key, mem[node].value>>

\* mutant of IterPreorderStep: the node is printed when it is popped, not
\* when it is pushed
IterPreorderStep_PrintsOnPop(mem, st) ==
  IF st.tree # NULL
  THEN [st EXCEPT !.tree = mem[st.tree].left,
                  !.stack = stack_push(st.stack, st.tree)]
  ELSE IF stack_empty(st.stack) THEN st
  ELSE [tree |-> mem[stack_top(st.stack)].right,
        stack |-> stack_pop(st.stack),
        out |-> Append(st.out, bst_print_node(mem, stack_top(st.stack)))]

\* Iterative bst_preorder.  The loop state is st = [tree, stack, out]: tree is
\* the pointer bst_leftmost_preorder walks down, out what has been printed.
\* One step is one turn of the loop of bst_leftmost_preorder while tree is
\* not NULL, else one turn of "while (!stack_bst_empty(stack))", which pops a
\* node and starts bst_leftmost_preorder on its right child.
IterPreorderStep(mem, st) ==
  IF st.tree # NULL
  THEN [tree |-> mem[st.tree].left,
        stack |-> stack_push(st.stack, st.tree),
        out |-> Append(st.out, bst_print_node(mem, st.tree))]
  ELSE IF stack_empty(st.stack) THEN st
  ELSE [st EXCEPT !.tree = mem[stack_top(st.stack)].right,
                  !.stack = stack_pop(st.stack)]

RECURSIVE IterPreorderRun(_, _, _)
IterPreorderRun(mem, st, n) ==
  IF n = 0 THEN st
  ELSE IF n = 1 THEN IterPreorderStep(mem, st)
  ELSE LET half == IterPreorderRun(mem, st, n \div 2)
       IN IF half.tree = NULL /\ stack_empty(half.stack) THEN half
          ELSE IterPreorderRun(mem, half, n - (n \div 2))

\* every node is pushed at most once and popped at most once
IterPreorder(mem, tree) ==
  IterPreorderRun(mem, [tree |-> tree, stack |-> stack_init, out |-> <<>>],
                  2 * Cardinality(Allocated(mem)) + 1).out

\* Iterative bst_inorder, on the same loop state: bst_leftmost_inorder pushes
\* without printing, the outer loop prints the node it pops.
IterInorderStep(mem, st) ==
  IF st.tree # NULL
  THEN [st EXCEPT !.tree = mem[st.tree].left,
                  !.stack = stack_push(st.stack, st.tree)]
  ELSE IF stack_empty(st.stack) THEN st
  ELSE LET tree == stack_top(st.stack)
       IN [tree |-> mem[tree].right,
           stack |-> stack_pop(st.stack),
           out |-> Append(st.out, bst_print_node(mem, tree))]

RECURSIVE IterInorderRun(_, _, _)
IterInorderRun(mem, st, n) ==
  IF n = 0 THEN st
  ELSE IF n = 1 THEN IterInorderStep(mem, st)
  ELSE LET half == IterInorderRun(mem, st, n \div 2)
       IN IF half.tree = NULL /\ stack_empty(half.stack) THEN half
          ELSE IterInorderRun(mem, half, n - (n \div 2))

IterInorder(mem, tree) ==
  IterInorderRun(mem, [tree |-> tree, stack |-> stack_init, out |-> <<>>],
                 2 * Cardinality(Allocated(mem)) + 1).out

\* Iterative bst_postorder, st = [tree, node_stack, bool_stack, out]:
\* bst_leftmost_postorder pushes the node and true; the outer loop looks at
\* the top node and pops its flag: on true it pushes false and starts
\* bst_leftmost_postorder on the right child, on false it pops the node and
\* prints it.
IterPostorderStep(mem, st) ==
  IF st.tree # NULL
  THEN [st EXCEPT !.tree = mem[st.tree].left,
                  !.node_stack = stack_push(st.node_stack, st.tree),
                  !.bool_stack = stack_push(st.bool_stack, TRUE)]
  ELSE IF stack_empty(st.node_stack) THEN st
  ELSE LET tree == stack_top(st.node_stack)
           isFromLeft == stack_top(st.bool_stack)
           popped == stack_pop(st.bool_stack)
       IN IF isFromLeft
          THEN [st EXCEPT !.tree = mem[tree].right,
                          !.bool_stack = stack_push(popped, FALSE)]
          ELSE [st EXCEPT !.node_stack = stack_pop(st.node_stack),
                          !.bool_stack = popped,
                          !.out = Append(st.out, bst_print_node(mem, tree))]

RECURSIVE IterPostorderRun(_, _, _)
IterPostorderRun(mem, st, n) ==
  IF n = 0 THEN st
  ELSE IF n = 1 THEN IterPostorderStep(mem, st)
  ELSE LET half == IterPostorderRun(mem, st, n \div 2)
       IN IF half.tree = NULL /\ stack_empty(half.node_stack) THEN half
          ELSE IterPostorderRun(mem, half, n - (n \div 2))

\* every node is pushed at most once and is on top at most twice
IterPostorder(mem, tree) ==
  IterPostorderRun(mem, [tree |-> tree, node_stack |-> stack_init,
                         bool_stack |-> stack_init, out |-> <<>>],
                   3 * Cardinality(Allocated(mem)) + 1).out

\* The recursive traversals.  The body of each is "if (tree != NULL)" around
\* three statements: a print and the calls on the left and on the right
\* child, in the order of the traversal.
Statements(order) ==
  IF order = "preorder" THEN <<"print", "left", "right">>
  ELSE IF order = "inorder" THEN <<"left", "print", "right">>
  ELSE <<"left", "right", "print">>

\* The activations of a recursive traversal as a call stack; an activation is
\* [tree, pc], pc the number of the statement it runs next.  One step runs
\* the next statement of the innermost activation; st = [stack, out].
RecTraverseStep(mem, st, order) ==
  IF st.stack = <<>> THEN st
  ELSE LET top == Len(st.stack)
           f == st.stack[top]
           rest == SubSeq(st.stack, 1, top - 1)
           Activation(p) == [tree |-> p, pc |-> 1]
           next == [f EXCEPT !.pc = f.pc + 1]
       IN IF f.tree = NULL \/ f.pc > 3
          THEN [st EXCEPT !.stack = rest]
          ELSE IF Statements(order)[f.pc] = "print"
          THEN [stack |-> rest \o <<next>>,
                out |-> Append(st.out, bst_print_node(mem, f.tree))]
          ELSE IF Statements(order)[f.pc] = "left"
          THEN [st EXCEPT !.stack = rest \o <<next, Activation(mem[f.tree].left)>>]
          ELSE [st EXCEPT !.stack = rest \o <<next, Activation(mem[f.tree].right)>>]

RECURSIVE RecTraverseRun(_, _, _, _)
RecTraverseRun(mem, st, order, n) ==
  IF n = 0 THEN st
  ELSE IF n = 1 THEN RecTraverseStep(mem, st, order)
  ELSE LET half == RecTraverseRun(mem, st, order, n \div 2)
       IN IF half.stack = <<>> THEN half
          ELSE RecTraverseRun(mem, half, order, n - (n \div 2))

\* four steps for every node and one for every empty child, and the first
RecTraverse(mem, tree, order) ==
  RecTraverseRun(mem, [stack |-> <<[tree |-> tree, pc |-> 1]>>, out |-> <<>>],
                 order, 5 * Cardinality(Allocated(mem)) + 2).out

RecPreorder(mem, tree) == RecTraverse(mem, tree, "preorder")
RecInorder(mem, tree) == RecTraverse(mem, tree, "inorder")
RecPostorder(mem, tree) == RecTraverse(mem, tree, "postorder")

\* The traversals as calls on the tree state T.  The result is [T, out,
\* finished]: the tree state when the call returns, what it printed, and
\* whether its loop (its recursion) came to its end.
\* bst_preorder: malloc of the stack, the NULL test, the loops, free(stack)
IterPreorderCall(T) ==
  IF T.sfail = 1 THEN [T |-> T, out |-> <<>>, finished |-> TRUE]
  ELSE LET st == IterPreorderRun(T.mem,
                   [tree |-> T.root, stack |-> stack_init, out |-> <<>>],
                   2 * Cardinality(Allocated(T.mem)) + 1)
       IN [T |-> T, out |-> st.out,
           finished |-> st.tree = NULL /\ stack_empty(st.stack)]

IterInorderCall(T) ==
  IF T.sfail = 1 THEN [T |-> T, out |-> <<>>, finished |-> TRUE]
  ELSE LET st == IterInorderRun(T.mem,
                   [tree |-> T.root, stack |-> stack_init, out |-> <<>>],
                   2 * Cardinality(Allocated(T.mem)) + 1)
       IN [T |-> T, out |-> st.out,
           finished |-> st.tree = NULL /\ stack_empty(st.stack)]

\* bst_postorder that frees the root node and clears the root handle
IterPostorderCall_FreesPrinted(T) ==
  LET st == IterPostorderRun(T.mem,
              [tree |-> T.root, node_stack |-> stack_init,
               bool_stack |-> stack_init, out |-> <<>>],
              3 * Cardinality(Allocated(T.mem)) + 1)
  IN [T |-> IF T.root = NULL THEN T ELSE [Free(T, T.root) EXCEPT !.root = NULL],
      out |-> st.out,
      finished |-> st.tree = NULL /\ stack_empty(st.node_stack)]

\* bst_postorder: when the malloc of bool_stack fails it returns without
\* free(node_stack)
IterPostorderCall(T) ==
  IF T.sfail = 1 THEN [T |-> T, out |-> <<>>, finished |-> TRUE]
  ELSE IF T.sfail = 2
  THEN [T |-> [T EXCEPT !.leak = TRUE], out |-> <<>>, finished |-> TRUE]
  ELSE LET st == IterPostorderRun(T.mem,
                   [tree |-> T.root, node_stack |-> stack_init,
                    bool_stack |-> stack_init, out |-> <<>>],
                   3 * Cardinality(Allocated(T.mem)) + 1)
       IN [T |-> T, out |-> st.out,
           finished |-> st.tree = NULL /\ stack_empty(st.node_stack)]

IterTraverseCall(T, order) ==
  IF order = "preorder" THEN IterPreorderCall(T)
  ELSE IF order = "inorder" THEN IterInorderCall(T)
  ELSE IterPostorderCall(T)

\* the recursive traversals allocate nothing
RecTraverseCall(T, order) ==
  LET st == RecTraverseRun(T.mem,
              [stack |-> <<[tree |-> T.root, pc |-> 1]>>, out |-> <<>>],
              order, 5 * Cardinality(Allocated(T.mem)) + 2)
  IN [T |-> T, out |-> st.out, finished |-> st.stack = <<>>]

\* ============================================================== hash table
\* String objects.  The caller owns three strings: "ab", "ba" (same bucket
\* as "ab") and "x".  Key copies made by strdup live on the key heap at
\* addresses 1..MaxItems; they are string objects too, distinct from the
\* caller's.
CallerStr ==
  [p \in 201..203 |->
     IF p = 201 THEN <<97, 98>> ELSE IF p = 202 THEN <<98, 97>> ELSE <<120>>]
CallerPtrs == DOMAIN CallerStr
\* values a caller may insert (1.0, 2.0): "x" with either, so that a value
\* is overwritten, the other strings with 1.0
HtValuesOf(s) == IF s = <<120>> THEN {1, 2} ELSE {1}
ItemAddr == 1..MaxItems
KeyAddr == 1..MaxItems

\* what is left at the address of a caller's string once the caller has
\* released it: no string
Released == <<0>>

\* A table state: the bucket array, the item heap, the heap of key copies,
\* what the running call freed, and whether it freed an unallocated address
\* or read an item after freeing it; with it, the present content of the
\* caller's strings.
FreeItem == [used |-> FALSE, key |-> NULL, value |-> 0, next |-> NULL]
FreeKey == [used |-> FALSE, str |-> <<>>]

HtEmpty ==
  [table |-> [i \in 0..(MAX_HT_SIZE - 1) |-> NULL],
   items |-> [a \in ItemAddr |-> FreeItem], keys |-> [a \in KeyAddr |-> FreeKey],
   freedItems |-> {}, freedKeys |-> {}, dfree |-> FALSE, uaf |-> FALSE,
   fail |-> "none", segv |-> FALSE, caller |-> CallerStr]

\* start of a call; every allocation of the call has memory
HtEnter(H) ==
  [H EXCEPT !.freedItems = {}, !.freedKeys = {}, !.uaf = FALSE,
            !.fail = "none", !.segv = FALSE]

\* start of a call during which one allocation has no memory: "item" is
\* malloc(sizeof(ht_item_t)), "key" is the malloc inside strdup
HtEnterFailing(H, which) == [HtEnter(H) EXCEPT !.fail = which]

\* the characters of the string a char * points to
Content(H, p) == IF p \in CallerPtrs THEN H.caller[p] ELSE H.keys[p].str

\* the items and key copies that are allocated
LiveItems(H) == {a \in ItemAddr : H.items[a].used}
LiveKeys(H) == {a \in KeyAddr : H.keys[a].used}

LowestFree(S, used) ==
  CHOOSE a \in S : a \notin used /\ \A b \in S : b < a => b \in used

\* C's % on int: the remainder has the sign of the dividend
CRem(a, n) == IF a >= 0 THEN a % n ELSE -((-a) % n)

RECURSIVE SumChars(_, _)
SumChars(key, i) == IF i > Len(key) THEN 0 ELSE key[i] + SumChars(key, i + 1)

\* get_hash on the char values key[0], key[1], ... of the key
get_hash(key, size) == CRem(1 + SumChars(key, 1), size)

\* The value of the expression key[i] of type char for a byte of the string:
\* where char is signed the bytes 128..255 are the values -128..-1, where it
\* is unsigned the values 128..255.  Which one is a property of the build.
CharOf(byte, isSigned) == IF isSigned /\ byte >= 128 THEN byte - 256 ELSE byte
CharsOf(bytes, isSigned) == [i \in DOMAIN bytes |-> CharOf(bytes[i], isSigned)]

\* ht_search: the scan "while (cellElement != NULL)"
RECURSIVE SearchLoop(_, _, _)
SearchLoop(H, cellElement, key) ==
  IF cellElement = NULL THEN NULL
  ELSE IF H.items[cellElement].key = key THEN cellElement
  ELSE SearchLoop(H, H.items[cellElement].next, key)

ht_search(H, size, key) ==
  SearchLoop(H, H.table[get_hash(Content(H, key), size)], key)

\* strdup: a fresh string object with the same characters
StrDup(H, a, s) == [H.keys EXCEPT ![a] = [used |-> TRUE, str |-> s]]

HtFreeItem(H, a) ==
  IF a \in ItemAddr /\ H.items[a].used
  THEN [H EXCEPT !.items[a] = FreeItem, !.freedItems = @ \cup {a}]
  ELSE [H EXCEPT !.dfree = TRUE]

HtFreeKey(H, a) ==
  IF a \in KeyAddr /\ H.keys[a].used
  THEN [H EXCEPT !.keys[a] = FreeKey, !.freedKeys = @ \cup {a}]
  ELSE [H EXCEPT !.dfree = TRUE]

\* malloc(sizeof(ht_item_t)): NULL when there is no memory
HtMallocItem(H) ==
  IF H.fail = "item" \/ LiveItems(H) = ItemAddr THEN NULL
  ELSE LowestFree(ItemAddr, LiveItems(H))

\* the malloc(strlen(s) + 1) of strdup: NULL when there is no memory
HtMallocKey(H) ==
  IF H.fail = "key" \/ LiveKeys(H) = KeyAddr THEN NULL
  ELSE LowestFree(KeyAddr, LiveKeys(H))

\* ht_insert that returns without free(newElement) when strdup fails
ht_insert_KeepsItemOnKeyFailure(H, size, key, value) ==
  LET element == ht_search(H, size, key)
  IN IF element # NULL
     THEN [H EXCEPT !.items[element].value = value]
     ELSE LET newElement == HtMallocItem(H)
              H1 == [H EXCEPT !.items[newElement] = [FreeItem EXCEPT !.used = TRUE]]
              newKey == HtMallocKey(H1)
              index == get_hash(Content(H, key), size)
              next == IF H.table[index] = NULL THEN NULL ELSE H.table[index]
          IN IF newElement = NULL THEN H
             ELSE IF newKey = NULL THEN H1
             ELSE [H1 EXCEPT
                     !.keys = StrDup(H, newKey, Content(H, key)),
                     !.items[newElement] =
                        [used |-> TRUE, key |-> newKey, value |-> value,
                         next |-> next],
                     !.table[index] = newElement]

\* ht_insert that stores the caller's pointer: newElement->key = key
ht_insert_AliasesKey(H, size, key, value) ==
  LET element == ht_search(H, size, key)
  IN IF element # NULL
     THEN [H EXCEPT !.items[element].value = value]
     ELSE LET newElement == HtMallocItem(H)
              H1 == [H EXCEPT !.items[newElement] = [FreeItem EXCEPT !.used = TRUE]]
              index == get_hash(Content(H, key), size)
              next == IF H.table[index] = NULL THEN NULL ELSE H.table[index]
          IN IF newElement = NULL THEN H
             ELSE [H1 EXCEPT
                     !.items[newElement] =
                        [used |-> TRUE, key |-> key, value |-> value,
                         next |-> next],
                     !.table[index] = newElement]

\* ht_insert that does not link the bucket's former chain behind the new
\* entry: newElement->next stays NULL
ht_insert_DropsChain(H, size, key, value) ==
  LET element == ht_search(H, size, key)
  IN IF element # NULL
     THEN [H EXCEPT !.items[element].value = value]
     ELSE LET newElement == HtMallocItem(H)
              H1 == [H EXCEPT !.items[newElement] = [FreeItem EXCEPT !.used = TRUE]]
              newKey == HtMallocKey(H1)
              index == get_hash(Content(H, key), size)
          IN IF newElement = NULL THEN H
             ELSE IF newKey = NULL THEN HtFreeItem(H1, newElement)
             ELSE [H1 EXCEPT
                     !.keys = StrDup(H, newKey, Content(H, key)),
                     !.items[newElement] =
                        [used |-> TRUE, key |-> newKey, value |-> value,
                         next |-> NULL],
                     !.table[index] = newElement]

ht_insert(H, size, key, value) ==
  LET element == ht_search(H, size, key)
  IN IF element # NULL
     THEN [H EXCEPT !.items[element].value = value]
     ELSE LET newElement == HtMallocItem(H)
              H1 == [H EXCEPT !.items[newElement] = [FreeItem EXCEPT !.used = TRUE]]
              newKey == HtMallocKey(H1)
              index == get_hash(Content(H, key), size)
              next == IF H.table[index] = NULL THEN NULL ELSE H.table[index]
          IN IF newElement = NULL THEN H
             ELSE IF newKey = NULL THEN HtFreeItem(H1, newElement)
             ELSE [H1 EXCEPT
                     !.keys = StrDup(H, newKey, Content(H, key)),
                     !.items[newElement] =
                        [used |-> TRUE, key |-> newKey, value |-> value,
                         next |-> next],
                     !.table[index] = newElement]

\* ht_get returns &(element->value): the model names it by the item address
ht_get(H, size, key) ==
  LET element == ht_search(H, size, key)
  IN IF element # NULL THEN element ELSE NULL

\* ht_delete: the loop "while (!isDeleted && cellElement != NULL)".  After
\* free(cellElement) the loop body still reads cellElement->next; the value
\* read is never used because isDeleted ends the loop.
RECURSIVE DeleteLoop(_, _, _, _, _)
DeleteLoop(H, index, prevCellElement, cellElement, key) ==
  IF cellElement = NULL THEN H
  ELSE IF H.items[cellElement].key = key
       THEN LET H1 == IF prevCellElement = NULL
                      THEN [H EXCEPT !.table[index] = H.items[cellElement].next]
                      ELSE [H EXCEPT !.items[prevCellElement].next =
                                        H.items[cellElement].next]
            IN [HtFreeItem(H1, cellElement) EXCEPT !.uaf = TRUE]
       ELSE DeleteLoop(H, index, cellElement, H.items[cellElement].next, key)

ht_delete(H, size, key) ==
  LET index == get_hash(Content(H, key), size)
  IN DeleteLoop(H, index, NULL, H.table[index], key)

\* ht_delete_all: the inner loop "while (current != NULL)"
RECURSIVE FreeChain(_, _)
FreeChain(H, current) ==
  IF current = NULL THEN H
  ELSE LET nextItem == H.items[current].next
       IN FreeChain(HtFreeItem(HtFreeKey(H, H.items[current].key), current), nextItem)

\* mutant of DeleteAllStep: the bucket head is not reset after its chain
\* has been freed
DeleteAllStep_KeepsHead(st) ==
  IF st.i >= MAX_HT_SIZE THEN st
  ELSE [H |-> FreeChain(st.H, st.H.table[st.i]), i |-> st.i + 1]

\* one turn of the outer loop "for (int i = 0; i < MAX_HT_SIZE; i++)" on the
\* loop state st = [H, i]; a state that fails the loop test is left as is
DeleteAllStep(st) ==
  IF st.i >= MAX_HT_SIZE THEN st
  ELSE [H |-> [FreeChain(st.H, st.H.table[st.i]) EXCEPT !.table[st.i] = NULL],
        i |-> st.i + 1]

\* up to n turns of the outer loop, stopping when the loop test fails
RECURSIVE DeleteAllRun(_, _)
DeleteAllRun(st, n) ==
  IF n = 0 THEN st
  ELSE IF n = 1 THEN DeleteAllStep(st)
  ELSE LET half == DeleteAllRun(st, n \div 2)
       IN IF half.i >= MAX_HT_SIZE THEN half
          ELSE DeleteAllRun(half, n - (n \div 2))

ht_delete_all(H) == DeleteAllRun([H |-> H, i |-> 0], MAX_HT_SIZE).H

\* The entry of each operation that takes a ht_table_t *table, which may be
\* NULL; past its NULL check the operation reads or writes (*table)[i].
\* TheTable is the address of the one table there is.
TheTable == 1
DerefTable(H, table) == IF table = NULL THEN [H EXCEPT !.segv = TRUE] ELSE H

ht_init_on(H, table) ==
  IF table = NULL THEN H
  ELSE [DerefTable(H, table) EXCEPT !.table = [i \in 0..(MAX_HT_SIZE - 1) |-> NULL]]

\* ht_search and ht_get return a pointer: the result is [H, ret]
ht_search_on(H, table, size, key) ==
  IF table = NULL THEN [H |-> H, ret |-> NULL]
  ELSE [H |-> DerefTable(H, table), ret |-> ht_search(H, size, key)]

ht_insert_on(H, table, size, key, value) ==
  IF table = NULL THEN H ELSE ht_insert(DerefTable(H, table), size, key, value)

ht_get_on(H, table, size, key) ==
  IF table = NULL THEN [H |-> H, ret |-> NULL]
  ELSE [H |-> DerefTable(H, table), ret |-> ht_get(H, size, key)]

ht_delete_on(H, table, size, key) ==
  IF table = NULL THEN H ELSE ht_delete(DerefTable(H, table), size, key)

ht_delete_all_on(H, table) ==
  IF table = NULL THEN H ELSE ht_delete_all(DerefTable(H, table))

\* ================================================================= actions
\* the abstract map a sequence of calls describes (key -> last value put)
Put(m, k, v) == [x \in (DOMAIN m) \cup {k} |-> IF x = k THEN v ELSE m[x]]
Del(m, k) == [x \in (DOMAIN m) \ {k} |-> m[x]]

\* the record of the last call: its name, its arguments and what it returned
\* (ret/value: iterative tree or hash table; retR/valueR: recursive tree;
\* kids: number of children the node holding the key had when bst_delete
\* was called, -1 when no node held it)
Call(op, key, value, ret, retR, valueR, kids) ==
  [op |-> op, key |-> key, value |-> value, ret |-> ret,
   retR |-> retR, valueR |-> valueR, kids |-> kids]

BoolToInt(b) == IF b THEN 1 ELSE 0

KidsOf(T, key) ==
  IF ~IterSearch(T, T.root, key, 0).found THEN -1
  ELSE LET n == T.mem[IterFind(T.mem, NULL, T.root, key)[2]]
       IN BoolToInt(n.left # NULL) + BoolToInt(n.right # NULL)

\* the state after bst_init and ht_init, with a node heap of the given size
InitWith(size) ==
  /\ treeI = EmptyTree(size)
  /\ treeR = EmptyTree(size)
  /\ bstLast = <<>>
  /\ ht = HtEmpty
  /\ HT_SIZE = MAX_HT_SIZE
  /\ htLast = <<>>
  /\ call = Call("init", 0, 0, 0, 0, 0, -1)

Init == InitWith(NumKeys)

\* bst_insert(&tree, key, value) on both trees; malloc has room
BstInsert(key, value) ==
  /\ Allocated(treeI.mem) # DOMAIN treeI.mem
  /\ Allocated(treeR.mem) # DOMAIN treeR.mem
  /\ treeI' = IterInsert(Enter(treeI), key, value)
  /\ treeR' = RecInsert(Enter(treeR), key, value)
  /\ bstLast' = Put(bstLast, key, value)
  /\ call' = Call("bst_insert", key, value, 0, 0, 0, -1)
  /\ UNCHANGED htVars

\* bst_insert(&tree, key, value) on both trees when malloc returns NULL; the
\* key is not in the tree, so the call reaches its malloc
BstInsertFails(key, value) ==
  /\ ~IterSearch(treeI, treeI.root, key, 0).found
  /\ treeI' = IterInsert(EnterFailing(treeI), key, value)
  /\ treeR' = RecInsert(EnterFailing(treeR), key, value)
  /\ call' = Call("bst_insert_nomem", key, value, 0, 0, 0, -1)
  /\ UNCHANGED <<bstLast, htVars>>

\* bst_delete(&tree, key) on both trees
BstDelete(key) ==
  /\ treeI' = IterDelete(Enter(treeI), key)
  /\ treeR' = RecDelete(Enter(treeR), key)
  /\ bstLast' = Del(bstLast, key)
  /\ call' = Call("bst_delete", key, 0, 0, 0, 0, KidsOf(treeI, key))
  /\ UNCHANGED htVars

\* bst_dispose(&tree) on both trees
BstDispose ==
  /\ treeI' = IterDispose(Enter(treeI))
  /\ treeR' = RecDispose(Enter(treeR))
  /\ bstLast' = <<>>
  /\ call' = Call("bst_dispose", 0, 0, 0, 0, 0, -1)
  /\ UNCHANGED htVars

\* bst_preorder, bst_inorder or bst_postorder on both trees; the n-th stack
\* allocation of the iterative variant returns NULL (n = 0: none does).  The
\* call record holds the two outputs (ret, retR) and whether the two calls
\* came to their end (value, valueR).
Orders == {"preorder", "inorder", "postorder"}
BstTraverse(order, n) ==
  LET rI == IterTraverseCall(EnterStackFailing(treeI, n), order)
      rR == RecTraverseCall(Enter(treeR), order)
  IN /\ treeI' = rI.T
     /\ treeR' = rR.T
     /\ call' = Call(IF n = 0 THEN "bst_" \o order ELSE "bst_" \o order \o "_nomem",
                     n, BoolToInt(rI.finished), rI.out, rR.out,
                     BoolToInt(rR.finished), -1)
     /\ UNCHANGED <<bstLast, htVars>>

\* bst_dispose on both trees while the stack allocation of the iterative
\* variant returns NULL; value tells whether the iterative call returned
BstDisposeNoMem(outcome) ==
  /\ treeI' = IterDisposeCall(EnterStackFailing(treeI, 1), outcome)
  /\ treeR' = RecDispose(Enter(treeR))
  /\ bstLast' = <<>>
  /\ call' = Call("bst_dispose_nomem", 1, BoolToInt(outcome # "crash"),
                  0, 0, 1, -1)
  /\ UNCHANGED htVars

\* bst_search(tree, key, &value) on both trees, *value being old before
\* the call: the tree is passed by value and only read.  The call record
\* holds old (value) and, for each variant, the pair of what the call
\* returned and what *value is after it (ret, retR).
BstSearch(key, old) ==
  LET rI == IterSearch(Enter(treeI), treeI.root, key, old)
      rR == RecSearch(Enter(treeR), treeR.root, key, old)
  IN /\ treeI' = Enter(treeI)
     /\ treeR' = Enter(treeR)
     /\ call' = Call("bst_search", key, old, <<BoolToInt(rI.found), rI.value>>,
                     <<BoolToInt(rR.found), rR.value>>, 0, -1)
     /\ UNCHANGED <<bstLast, htVars>>

\* the char * values a caller can pass: its own strings, and the key copies
\* it can read out of the items of the table
KeyPtrs(H) == {p \in CallerPtrs : H.caller[p] # Released} \cup LiveKeys(H)

HtInsert(key, value) ==
  /\ \/ ht_search(ht, HT_SIZE, key) # NULL
     \/ /\ LiveItems(ht) # ItemAddr
        /\ LiveKeys(ht) # KeyAddr
  /\ ht' = ht_insert(HtEnter(ht), HT_SIZE, key, value)
  /\ htLast' = Put(htLast, Content(ht, key), value)
  /\ call' = Call("ht_insert", key, value, 0, 0, 0, -1)
  /\ UNCHANGED <<bstVars, HT_SIZE>>

\* ht_insert(table, key, value) when the allocation named by which returns
\* NULL; ht_search does not find the key, so the call reaches its malloc
HtInsertFails(key, value, which) ==
  /\ ht_search(ht, HT_SIZE, key) = NULL
  /\ ht' = ht_insert(HtEnterFailing(ht, which), HT_SIZE, key, value)
  /\ call' = Call("ht_insert_nomem_" \o which, key, value, 0, 0, 0, -1)
  /\ UNCHANGED <<bstVars, HT_SIZE, htLast>>

\* the caller overwrites one of its strings with the characters s
CallerWrites(p, s) ==
  /\ ht.caller[p] # Released
  /\ ht' = [HtEnter(ht) EXCEPT !.caller[p] = s]
  /\ call' = Call("caller_write", p, 0, 0, 0, 0, -1)
  /\ UNCHANGED <<bstVars, HT_SIZE, htLast>>

\* the caller releases one of its strings
CallerReleases(p) ==
  /\ ht.caller[p] # Released
  /\ ht' = [HtEnter(ht) EXCEPT !.caller[p] = Released]
  /\ call' = Call("caller_release", p, 0, 0, 0, 0, -1)
  /\ UNCHANGED <<bstVars, HT_SIZE, htLast>>

HtDelete(key) ==
  /\ ht' = ht_delete(HtEnter(ht), HT_SIZE, key)
  /\ htLast' = Del(htLast, Content(ht, key))
  /\ call' = Call("ht_delete", key, 0, 0, 0, 0, -1)
  /\ UNCHANGED <<bstVars, HT_SIZE>>

HtDeleteAll ==
  /\ ht' = ht_delete_all(HtEnter(ht))
  /\ htLast' = <<>>
  /\ call' = Call("ht_delete_all", 0, 0, 0, 0, 0, -1)
  /\ UNCHANGED <<bstVars, HT_SIZE>>

\* ------------------------------------------- calls that pass a handle
\* the handles a caller can pass: NULL, or the address of its root pointer
\* (of its table)
Handles == {NullHandle, RootSlot}
\* the keys these calls use, and the number of key copies that may exist
\* when they insert into the table
HandleKeys == {97, 98, 99}
HandleItems == 2
Tables == {NULL, TheTable}
OpOn(op, isNull) == IF isNull THEN op \o "_null" ELSE op

\* bst_init(tree); on a handle that is not NULL the tree is empty
CallBstInit(tree) ==
  /\ tree = NullHandle \/ Allocated(treeI.mem) = {}
  /\ treeI' = BstInitOn(Enter(treeI), tree)
  /\ treeR' = BstInitOn(Enter(treeR), tree)
  /\ call' = Call(OpOn("bst_init", tree = NullHandle), 0, 0, 0, 0, 0, -1)
  /\ UNCHANGED <<bstLast, htVars>>

CallBstInsert(tree, key, value) ==
  /\ Allocated(treeI.mem) # DOMAIN treeI.mem
  /\ Allocated(treeR.mem) # DOMAIN treeR.mem
  /\ treeI' = IterInsertOn(Enter(treeI), tree, key, value)
  /\ treeR' = RecInsertOn(Enter(treeR), tree, key, value)
  /\ bstLast' = IF tree = NullHandle THEN bstLast ELSE Put(bstLast, key, value)
  /\ call' = Call(OpOn("bst_insert", tree = NullHandle), key, value, 0, 0, 0, -1)
  /\ UNCHANGED htVars

CallBstDelete(tree, key) ==
  /\ treeI' = IterDeleteOn(Enter(treeI), tree, key)
  /\ treeR' = RecDeleteOn(Enter(treeR), tree, key)
  /\ bstLast' = IF tree = NullHandle THEN bstLast ELSE Del(bstLast, key)
  /\ call' = Call(OpOn("bst_delete", tree = NullHandle), key, 0, 0, 0, 0, -1)
  /\ UNCHANGED htVars

CallBstDispose(tree) ==
  /\ treeI' = IterDisposeOn(Enter(treeI), tree)
  /\ treeR' = RecDisposeOn(Enter(treeR), tree)
  /\ bstLast' = IF tree = NullHandle THEN bstLast ELSE <<>>
  /\ call' = Call(OpOn("bst_dispose", tree = NullHandle), 0, 0, 0, 0, 0, -1)
  /\ UNCHANGED htVars

\* bst_replace_by_rightmost(target, tree) with target the root node: with a
\* NULL handle, or with the address of the left pointer of the root, which
\* is not NULL
CallBstReplaceByRightmost(isNull) ==
  /\ isNull \/ (treeI.root # NULL /\ treeI.mem[treeI.root].left # NULL)
  /\ treeI' = IterReplaceByRightmostOn(Enter(treeI), treeI.root,
                 IF isNull THEN NullHandle ELSE SlotOf(treeI.root, "left"))
  /\ treeR' = RecReplaceByRightmostOn(Enter(treeR), treeR.root,
                 IF isNull THEN NullHandle ELSE SlotOf(treeR.root, "left"))
  /\ bstLast' = IF isNull THEN bstLast ELSE Del(bstLast, treeI.mem[treeI.root].key)
  /\ call' = Call(OpOn("bst_replace_by_rightmost", isNull), 0, 0, 0, 0, 0, -1)
  /\ UNCHANGED htVars

\* ht_init(table); on a handle that is not NULL the table is empty
CallHtInit(table) ==
  /\ table = NULL \/ LiveItems(ht) = {}
  /\ ht' = ht_init_on(HtEnter(ht), table)
  /\ call' = Call(OpOn("ht_init", table = NULL), 0, 0, 0, 0, 0, -1)
  /\ UNCHANGED <<bstVars, HT_SIZE, htLast>>

CallHtSearch(table, key) ==
  LET r == ht_search_on(HtEnter(ht), table, HT_SIZE, key)
  IN /\ ht' = r.H
     /\ call' = Call(OpOn("ht_search", table = NULL), key, 0, r.ret, 0, 0, -1)
     /\ UNCHANGED <<bstVars, HT_SIZE, htLast>>

CallHtInsert(table, key, value) ==
  /\ \/ ht_search(ht, HT_SIZE, key) # NULL
     \/ /\ LiveItems(ht) # ItemAddr
        /\ Cardinality(LiveKeys(ht)) < HandleItems
  /\ ht' = ht_insert_on(HtEnter(ht), table, HT_SIZE, key, value)
  /\ htLast' = IF table = NULL THEN htLast ELSE Put(htLast, Content(ht, key), value)
  /\ call' = Call(OpOn("ht_insert", table = NULL), key, value, 0, 0, 0, -1)
  /\ UNCHANGED <<bstVars, HT_SIZE>>

CallHtGet(table, key) ==
  LET r == ht_get_on(HtEnter(ht), table, HT_SIZE, key)
  IN /\ ht' = r.H
     /\ call' = Call(OpOn("ht_get", table = NULL), key, 0, r.ret, 0, 0, -1)
     /\ UNCHANGED <<bstVars, HT_SIZE, htLast>>

CallHtDelete(table, key) ==
  /\ ht' = ht_delete_on(HtEnter(ht), table, HT_SIZE, key)
  /\ htLast' = IF table = NULL THEN htLast ELSE Del(htLast, Content(ht, key))
  /\ call' = Call(OpOn("ht_delete", table = NULL), key, 0, 0, 0, 0, -1)
  /\ UNCHANGED <<bstVars, HT_SIZE>>

CallHtDeleteAll(table) ==
  /\ ht' = ht_delete_all_on(HtEnter(ht), table)
  /\ htLast' = IF table = NULL THEN htLast ELSE <<>>
  /\ call' = Call(OpOn("ht_delete_all", table = NULL), 0, 0, 0, 0, 0, -1)
  /\ UNCHANGED <<bstVars, HT_SIZE>>

\* --------------------------------------------------- calls of get_hash
\* the strings get_hash is called with: up to MaxKeyLen bytes, among them
\* bytes on both sides of 127/128
MaxKeyLen == 2
HashBytes == {1, 97, 127, 128, 200, 255}
HashKeys == UNION {[1..n -> HashBytes] : n \in 0..MaxKeyLen}
\* the table sizes: HT_SIZE is a variable of the program, MAX_HT_SIZE at start
HashSizes == {7, MAX_HT_SIZE}

\* the program before its first get_hash: built with signed or unsigned
\* char (field value of the call record: 1 signed, 0 unsigned), HT_SIZE set
InitHash ==
  /\ treeI = EmptyTree(NumKeys)
  /\ treeR = EmptyTree(NumKeys)
  /\ bstLast = <<>>
  /\ ht = HtEmpty
  /\ HT_SIZE \in HashSizes
  /\ htLast = <<>>
  /\ \E isSigned \in BOOLEAN :
       call = Call("init", <<>>, BoolToInt(isSigned), 0, 0, 0, -1)

\* get_hash(key): the call record holds the bytes of the key and the result
GetHash(bytes) ==
  /\ call' = Call("get_hash", bytes, call.value,
                  get_hash(CharsOf(bytes, call.value = 1), HT_SIZE), 0, 0, -1)
  /\ UNCHANGED <<bstVars, ht, HT_SIZE, htLast>>

NextHash == \E bytes \in HashKeys : GetHash(bytes)

SpecHash == InitHash /\ [][NextHash]_vars

\* ------------------------------------- table calls with any key bytes
\* the program before its first call on the table: built with signed or
\* unsigned char, HT_SIZE set, and the caller's third string being the one
\* byte 200 (as the char value of the build)
InitIdx ==
  /\ treeI = EmptyTree(NumKeys)
  /\ treeR = EmptyTree(NumKeys)
  /\ bstLast = <<>>
  /\ HT_SIZE \in HashSizes
  /\ htLast = <<>>
  /\ \E isSigned \in BOOLEAN :
       /\ ht = [HtEmpty EXCEPT !.caller[203] = CharsOf(<<200>>, isSigned)]
       /\ call = Call("init", 0, BoolToInt(isSigned), 0, 0, 0, -1)

\* ht_insert or ht_delete with a key whose index, get_hash(key), is not an
\* index of the array:
\* ht_search (ht_delete) reads (*table)[index] outside the table (segv).
\* The build either stops the process at that access ("crash"), or the
\* access reads NULL ("continue"): ht_delete then returns, ht_insert
\* allocates the item and the key copy and writes the item's address to
\* (*table)[index], outside the table.  retR tells whether the process
\* was stopped.
HtCallOutside(op, key, value, outcome) ==
  LET H == HtEnter(ht)
      newElement == HtMallocItem(H)
      newKey == HtMallocKey(H)
  IN /\ get_hash(Content(ht, key), HT_SIZE) \notin DOMAIN ht.table
     /\ op = "ht_insert" => newElement # NULL /\ newKey # NULL
     /\ ht' = IF outcome = "crash" \/ op = "ht_delete"
              THEN [H EXCEPT !.segv = TRUE]
              ELSE [H EXCEPT
                      !.segv = TRUE,
                      !.keys = StrDup(H, newKey, Content(H, key)),
                      !.items[newElement] =
                         [used |-> TRUE, key |-> newKey, value |-> value,
                          next |-> NULL]]
     /\ call' = Call(op, key, value, 0, BoolToInt(outcome = "crash"), 0, -1)
     /\ UNCHANGED <<bstVars, HT_SIZE, htLast>>

NextIdx ==
  \/ call.retR = 0 /\ \E p \in KeyPtrs(ht) : \E v \in HtValuesOf(Content(ht, p)) :
        get_hash(Content(ht, p), HT_SIZE) \in DOMAIN ht.table /\ HtInsert(p, v)
  \/ call.retR = 0 /\ \E p \in KeyPtrs(ht) :
        get_hash(Content(ht, p), HT_SIZE) \in DOMAIN ht.table /\ HtDelete(p)
  \/ call.retR = 0 /\ HtDeleteAll
  \/ call.retR = 0 /\ \E p \in KeyPtrs(ht) : \E op \in {"ht_insert", "ht_delete"} :
        \E outcome \in DisposeOutcomes : HtCallOutside(op, p, 1, outcome)

SpecIdx == InitIdx /\ [][NextIdx]_vars

\* ---------------------------------------------------------- specifications
\* the two trees under every sequence of calls over Keys
NextBst ==
  \/ \E k \in Keys : \E v \in ValuesOf(k) : BstInsert(k, v)
  \/ \E k \in Keys : BstDelete(k)
  \/ BstDispose

SpecBst == Init /\ [][NextBst]_vars

\* the hash table under every sequence of calls
NextHt ==
  \/ \E p \in KeyPtrs(ht) : \E v \in HtValuesOf(Content(ht, p)) : HtInsert(p, v)
  \/ \E p \in KeyPtrs(ht) : HtDelete(p)
  \/ HtDeleteAll

SpecHt == Init /\ [][NextHt]_vars

\* the table while the caller rewrites and releases the strings it passed
\* as keys
NextOwn ==
  \/ \E p \in KeyPtrs(ht) : \E v \in HtValuesOf(Content(ht, p)) : HtInsert(p, v)
  \/ \E p \in CallerPtrs : \E s \in {CallerStr[q] : q \in CallerPtrs} :
       CallerWrites(p, s)
  \/ \E p \in CallerPtrs : CallerReleases(p)

SpecOwn == Init /\ [][NextOwn]_vars

\* the trees under insertions, deletions and traversals
TravKeys == {97, 98, 99}
NextTrav ==
  \/ \E k \in TravKeys : \E v \in ValuesOf(k) : BstInsert(k, v)
  \/ \E k \in TravKeys : BstDelete(k)
  \/ \E order \in Orders : BstTraverse(order, 0)

SpecTrav == Init /\ [][NextTrav]_vars

\* the trees under insertions, deletions and searches, the caller's value
\* slot holding -1 or 9 before a search
NextSearch ==
  \/ \E k \in TravKeys : \E v \in ValuesOf(k) : BstInsert(k, v)
  \/ \E k \in TravKeys : BstDelete(k)
  \/ \E k \in TravKeys : \E old \in {-1, 9} : BstSearch(k, old)

SpecSearch == Init /\ [][NextSearch]_vars

\* the trees under insertions, and traversals and disposals during which a
\* stack allocation fails (bst_postorder allocates two stacks, the others
\* one); a process stopped at an access to address 0 makes no further call
Stopped == call.op = "bst_dispose_nomem" /\ call.value = 0
NextNoStack ==
  \/ ~Stopped /\ \E k \in TravKeys : \E v \in ValuesOf(k) : BstInsert(k, v)
  \/ ~Stopped /\ \E order \in Orders :
        \E n \in 1..(IF order = "postorder" THEN 2 ELSE 1) : BstTraverse(order, n)
  \/ ~Stopped /\ \E outcome \in DisposeOutcomes : BstDisposeNoMem(outcome)

SpecNoStack == Init /\ [][NextNoStack]_vars

\* calls during which malloc may return NULL: insertions into the trees
\* while the table is as ht_init left it, insertions into the table while
\* the trees are as bst_init left them
OnlyTrees == ht = HtEmpty
OnlyTable == treeI = EmptyTree(NumKeys) /\ treeR = EmptyTree(NumKeys)

NextOom ==
  \/ OnlyTrees /\ \E k \in Keys : \E v \in ValuesOf(k) : BstInsert(k, v)
  \/ OnlyTrees /\ \E k \in Keys : \E v \in ValuesOf(k) : BstInsertFails(k, v)
  \/ OnlyTrees /\ BstDispose
  \/ OnlyTable /\ \E p \in KeyPtrs(ht) :
                     \E v \in HtValuesOf(Content(ht, p)) : HtInsert(p, v)
  \/ OnlyTable /\ \E p \in KeyPtrs(ht) :
                     \E v \in HtValuesOf(Content(ht, p)) :
                       \E which \in {"item", "key"} : HtInsertFails(p, v, which)
  \/ OnlyTable /\ HtDeleteAll

SpecOom == Init /\ [][NextOom]_vars

\* calls that pass a handle which may be NULL: on the trees while the table
\* is as ht_init left it, on the table while the trees are as bst_init left
\* them
NextNull ==
  \/ OnlyTrees /\ \E tree \in Handles : CallBstInit(tree)
  \/ OnlyTrees /\ \E tree \in Handles : \E k \in HandleKeys : \E v \in ValuesOf(k) :
                     CallBstInsert(tree, k, v)
  \/ OnlyTrees /\ \E tree \in Handles : \E k \in HandleKeys : CallBstDelete(tree, k)
  \/ OnlyTrees /\ \E tree \in Handles : CallBstDispose(tree)
  \/ OnlyTrees /\ \E isNull \in BOOLEAN : CallBstReplaceByRightmost(isNull)
  \/ OnlyTable /\ \E table \in Tables : CallHtInit(table)
  \/ OnlyTable /\ \E table \in Tables : \E p \in KeyPtrs(ht) :
                     CallHtSearch(table, p)
  \/ OnlyTable /\ \E table \in Tables : \E p \in KeyPtrs(ht) :
                     \E v \in HtValuesOf(Content(ht, p)) : CallHtInsert(table, p, v)
  \/ OnlyTable /\ \E table \in Tables : \E p \in KeyPtrs(ht) : CallHtGet(table, p)
  \/ OnlyTable /\ \E table \in Tables : \E p \in KeyPtrs(ht) :
                     CallHtDelete(table, p)
  \/ OnlyTable /\ \E table \in Tables : CallHtDeleteAll(table)

SpecNull == Init /\ [][NextNull]_vars

\* a deep tree: a left spine of MAXSTACK + 1 nodes, each with a right child,
\* built by bst_insert in the order spine node, its right child, next spine
\* node ...; bst_dispose may be called at any point
DeepLen == 2 * (MAXSTACK + 1)
DeepKey(i) == IF i % 2 = 1 THEN 127 - (i + 1) ELSE 127 - i + 1

DeepInsert ==
  LET n == Cardinality(Allocated(treeR.mem))
  IN n < DeepLen /\ BstInsert(DeepKey(n + 1), 0)

NextDeep == DeepInsert \/ BstDispose

\* room for the deep tree and for the nodes a bst_dispose may leave behind
InitDeep == InitWith(DeepLen + 2)

SpecDeep == InitDeep /\ [][NextDeep]_vars

\* a full tree of seven nodes, built by bst_insert in the order d, b, f, a,
\* c, e, g; bst_delete of any of its keys may be called at any point, and
\* ends the building
FullKeys == <<100, 98, 102, 97, 99, 101, 103>>

FullInsert ==
  LET n == Cardinality(DOMAIN bstLast)
  IN /\ call.op \in {"init", "bst_insert"}
     /\ n < Len(FullKeys)
     /\ BstInsert(FullKeys[n + 1], FullKeys[n + 1] - 96)

NextFull ==
  \/ FullInsert
  \/ \E i \in DOMAIN FullKeys : BstDelete(FullKeys[i])

InitFull == InitWith(Len(FullKeys))

SpecFull == InitFull /\ [][NextFull]_vars

\* ============================================================ tree claims
\* the nodes of the subtree rooted at p
RECURSIVE SubtreeNodes(_, _)
SubtreeNodes(mem, p) ==
  IF p = NULL THEN {}
  ELSE {p} \cup SubtreeNodes(mem, mem[p].left) \cup SubtreeNodes(mem, mem[p].right)

SubtreeKeys(mem, p) == {mem[a].key : a \in SubtreeNodes(mem, p)}

\* what bst_search(tree, key, &value) answers on both trees, *value holding
\* -1 before the call
SearchI(key) == IterSearch(treeI, treeI.root, key, -1)
SearchR(key) == RecSearch(treeR, treeR.root, key, -1)

\* C1: after any sequence of bst_insert and bst_delete calls, on both trees,
\* bst_search(k) returns true and the value of the most recent bst_insert(k, v)
\* when k was inserted and not deleted since, and false for every other key;
\* right after bst_insert(k, v), bst_search(k) yields v.
C1_SearchReturnsLastInserted ==
  /\ \A k \in Keys :
       IF k \in DOMAIN bstLast
       THEN /\ SearchI(k) = [found |-> TRUE, value |-> bstLast[k]]
            /\ SearchR(k) = [found |-> TRUE, value |-> bstLast[k]]
       ELSE /\ ~SearchI(k).found
            /\ ~SearchR(k).found
  /\ call.op = "bst_insert" =>
       /\ SearchI(call.key) = [found |-> TRUE, value |-> call.value]
       /\ SearchR(call.key) = [found |-> TRUE, value |-> call.value]

\* 'b' was given the value 0 by the last call while three other keys are in
\* the tree, and a key that was deleted is not found
C1_Witness ==
  /\ call.op = "bst_insert" /\ call.key = 98 /\ call.value = 0
  /\ Cardinality(DOMAIN bstLast) = 3
  /\ SearchI(98).found /\ SearchI(98).value = 0
  /\ SearchR(98).found /\ SearchR(98).value = 0
  /\ \E k \in Keys : ~SearchI(k).found /\ ~SearchR(k).found

\* the search-tree order at every node below the root handle
Ordered(T) ==
  \A a \in SubtreeNodes(T.mem, T.root) :
    /\ \A k \in SubtreeKeys(T.mem, T.mem[a].left) : k < T.mem[a].key
    /\ \A k \in SubtreeKeys(T.mem, T.mem[a].right) : T.mem[a].key < k

\* C2: in every state reached by bst_insert and bst_delete from an empty
\* tree, on both trees, every node's key is strictly greater than every key in
\* its left subtree and strictly less than every key in its right subtree.
C2_SearchTreeOrder == Ordered(treeI) /\ Ordered(treeR)

\* a node with two children was deleted from a tree and at least three nodes
\* remain, one of them with two children
C2_Witness ==
  /\ call.op = "bst_delete" /\ call.kids = 2
  /\ Cardinality(SubtreeNodes(treeI.mem, treeI.root)) >= 3
  /\ \E a \in SubtreeNodes(treeR.mem, treeR.root) :
       treeR.mem[a].left # NULL /\ treeR.mem[a].right # NULL

\* C9: bst_dispose on any tree built by bst_insert and bst_delete frees every
\* node still in the tree exactly once and sets the root handle to empty, on
\* both trees: after the call the root handle is NULL, no node is allocated
\* any more, and nothing was freed that was not allocated.
C9_DisposeFreesEveryNode ==
  call.op = "bst_dispose" =>
    /\ treeI.root = NULL /\ Allocated(treeI.mem) = {} /\ ~treeI.dfree
    /\ treeR.root = NULL /\ Allocated(treeR.mem) = {} /\ ~treeR.dfree

\* the node that holds key in a tree that holds it
NodeOf(T, key) == IterFind(T.mem, NULL, T.root, key)[2]

\* what bst_delete(key) did between T and T2 when the node holding key had
\* two children: the node took the key and value of the rightmost node of its
\* left subtree, that node and no other was freed, and the node's right
\* subtree is as it was
TwoChildrenPost(T, T2, key) ==
  LET target == NodeOf(T, key)
      pred == Rightmost(T.mem, T.mem[target].left)
  IN /\ T2.mem[target].used
     /\ T2.mem[target].key = T.mem[pred].key
     /\ T2.mem[target].value = T.mem[pred].value
     /\ T2.freed = {pred}
     /\ ~T2.mem[pred].used
     /\ ~T2.dfree
     /\ T2.mem[target].right = T.mem[target].right
     /\ \A a \in SubtreeNodes(T.mem, T.mem[target].right) : T2.mem[a] = T.mem[a]
     /\ pred \notin SubtreeNodes(T2.mem, T2.root)
     /\ target \in SubtreeNodes(T2.mem, T2.root)

\* the tree built by inserting b->2, a->1, d->4, c->3 into an empty tree
IsScenarioTree(T) ==
  /\ RecPreorder(T.mem, T.root) = << <<98, 2>>, <<97, 1>>, <<100, 4>>, <<99, 3>> >>
  /\ RecInorder(T.mem, T.root) = << <<97, 1>>, <<98, 2>>, <<99, 3>>, <<100, 4>> >>

AfterScenarioDelete(T) ==
  RecInorder(T.mem, T.root) = << <<97, 1>>, <<99, 3>>, <<100, 4>> >>

C10_Step ==
  \A k \in Keys :
    (call'.op = "bst_delete" /\ call'.key = k /\ call'.kids = 2) =>
      /\ TwoChildrenPost(treeI, treeI', k)
      /\ TwoChildrenPost(treeR, treeR', k)
      /\ (k = 98 /\ IsScenarioTree(treeI)) => AfterScenarioDelete(treeI')
      /\ (k = 98 /\ IsScenarioTree(treeR)) => AfterScenarioDelete(treeR')

\* C10: bst_delete(k) on a node with two children, on both trees, overwrites
\* the node's key and value with those of the rightmost node of its left
\* subtree, removes and frees that rightmost node, does not free the target
\* node and leaves the target's right subtree unchanged; deleting 'b' from the
\* tree built by inserting b, a, d, c leaves the in-order sequence
\* [a,1],[c,3],[d,4].
C10_DeleteTwoChildren == [][C10_Step]_vars

\* 'b' with two children was deleted and the in-order sequence is
\* [a,1],[c,3],[d,4], the root having kept its address and its right subtree
C10_Witness ==
  /\ call.op = "bst_delete" /\ call.key = 98 /\ call.kids = 2
  /\ AfterScenarioDelete(treeI) /\ AfterScenarioDelete(treeR)
  /\ treeI.mem[treeI.root].key = 97 /\ treeI.mem[treeI.root].right # NULL
  /\ Cardinality(treeI.freed) = 1 /\ treeI.root \notin treeI.freed

\* C11: bst_delete(k) on a tree that holds no node with key k, on both trees,
\* leaves the root handle and every node as they were and frees nothing.
C11_Step ==
  (call'.op = "bst_delete" /\ call'.kids = -1) =>
    /\ treeI'.root = treeI.root /\ treeI'.mem = treeI.mem
    /\ treeI'.freed = {} /\ ~treeI'.dfree
    /\ treeR'.root = treeR.root /\ treeR'.mem = treeR.mem
    /\ treeR'.freed = {} /\ ~treeR'.dfree

C11_DeleteAbsentIsNoOp == [][C11_Step]_vars

\* a key that is in neither tree was deleted from trees of three nodes
C11_Witness ==
  /\ call.op = "bst_delete" /\ call.kids = -1
  /\ ~SearchI(call.key).found /\ ~SearchR(call.key).found
  /\ Cardinality(SubtreeNodes(treeI.mem, treeI.root)) = 3
  /\ Cardinality(SubtreeNodes(treeR.mem, treeR.root)) = 3

\* the tree below p as a structure: empty, or key, value, left and right
RECURSIVE Shape(_, _)
Shape(mem, p) ==
  IF p = NULL THEN <<>>
  ELSE <<mem[p].key, mem[p].value, Shape(mem, mem[p].left), Shape(mem, mem[p].right)>>

\* the pairs of a traversal output, as a set
Emitted(out) == {out[i] : i \in 1..Len(out)}

\* the pairs <<key, value>> the map holds after the calls made so far
Pairs == {<<k, bstLast[k]>> : k \in DOMAIN bstLast}

\* C12: after the same sequence of bst_insert and bst_delete calls the
\* iterative and the recursive tree have the same shape with the same key and
\* value in every position, bst_search answers the same on both, and the
\* three traversals of the iterative variant print what those of the
\* recursive variant print.
C12_SameTreesAndOutputs ==
  /\ Shape(treeI.mem, treeI.root) = Shape(treeR.mem, treeR.root)
  /\ \A k \in Keys : SearchI(k) = SearchR(k)
  /\ IterPreorder(treeI.mem, treeI.root) = RecPreorder(treeR.mem, treeR.root)
  /\ IterInorder(treeI.mem, treeI.root) = RecInorder(treeR.mem, treeR.root)
  /\ IterPostorder(treeI.mem, treeI.root) = RecPostorder(treeR.mem, treeR.root)

\* C13: bst_inorder of either variant prints every node of the tree exactly
\* once, with keys in strictly ascending order.
InorderAscendingOnce(out) ==
  /\ \A i \in 1..(Len(out) - 1) : out[i][1] < out[i + 1][1]
  /\ Emitted(out) = Pairs
  /\ Len(out) = Cardinality(Pairs)

C13_InorderAscending ==
  /\ InorderAscendingOnce(IterInorder(treeI.mem, treeI.root))
  /\ InorderAscendingOnce(RecInorder(treeR.mem, treeR.root))

\* C14: on one and the same tree the iterative bst_inorder prints exactly the
\* sequence the recursive bst_inorder prints.
C14_InorderSameAsRecursive ==
  /\ IterInorder(treeI.mem, treeI.root) = RecInorder(treeI.mem, treeI.root)
  /\ IterInorder(treeR.mem, treeR.root) = RecInorder(treeR.mem, treeR.root)

\* C15: on one and the same tree the iterative bst_preorder prints exactly
\* the sequence the recursive bst_preorder prints.
C15_PreorderSameAsRecursive ==
  /\ IterPreorder(treeI.mem, treeI.root) = RecPreorder(treeI.mem, treeI.root)
  /\ IterPreorder(treeR.mem, treeR.root) = RecPreorder(treeR.mem, treeR.root)

\* C16: on one and the same tree the iterative bst_postorder prints exactly
\* the sequence the recursive bst_postorder prints.
C16_PostorderSameAsRecursive ==
  /\ IterPostorder(treeI.mem, treeI.root) = RecPostorder(treeI.mem, treeI.root)
  /\ IterPostorder(treeR.mem, treeR.root) = RecPostorder(treeR.mem, treeR.root)

\* the trees the scenario goes through: after 'b'->2, then 'a'->1, then 'd'->4
ScenarioB == <<98, 2, <<>>, <<>>>>
ScenarioBA == <<98, 2, <<97, 1, <<>>, <<>>>>, <<>>>>
ScenarioBAD == <<98, 2, <<97, 1, <<>>, <<>>>>, <<100, 4, <<>>, <<>>>>>>

\* bst_insert(key, value) is the call of this step and both trees had the
\* given structure before it
ScenarioCall(before, key, value) ==
  /\ Shape(treeI.mem, treeI.root) = before
  /\ Shape(treeR.mem, treeR.root) = before
  /\ call'.op = "bst_insert" /\ call'.key = key /\ call'.value = value

BothShapes(after) ==
  /\ Shape(treeI'.mem, treeI'.root) = after
  /\ Shape(treeR'.mem, treeR'.root) = after

C17_Step ==
  /\ ScenarioCall(<<>>, 98, 2) => BothShapes(ScenarioB)
  /\ ScenarioCall(ScenarioB, 97, 1) => BothShapes(ScenarioBA)
  /\ ScenarioCall(ScenarioBA, 100, 4) => BothShapes(ScenarioBAD)
  /\ ScenarioCall(ScenarioBAD, 99, 3) =>
       /\ IterInorder(treeI'.mem, treeI'.root)
            = << <<97, 1>>, <<98, 2>>, <<99, 3>>, <<100, 4>> >>
       /\ RecInorder(treeR'.mem, treeR'.root)
            = << <<97, 1>>, <<98, 2>>, <<99, 3>>, <<100, 4>> >>
       /\ IterPreorder(treeI'.mem, treeI'.root)
            = << <<98, 2>>, <<97, 1>>, <<100, 4>>, <<99, 3>> >>
       /\ RecPreorder(treeR'.mem, treeR'.root)
            = << <<98, 2>>, <<97, 1>>, <<100, 4>>, <<99, 3>> >>

\* C17: inserting 'b'->2, 'a'->1, 'd'->4, 'c'->3 in that order into an empty
\* tree, on both trees, gives in-order output [a,1],[b,2],[c,3],[d,4] and
\* preorder output [b,2],[a,1],[d,4],[c,3]: every call of the scenario leads
\* from the tree the calls before it built to the next one, and the last one
\* to a tree with these outputs.
C17_ScenarioOutputs == [][C17_Step]_vars

\* 'c'->3 was inserted last and both trees are b with children a and d, c
\* being the left child of d
C17_Witness ==
  /\ call.op = "bst_insert" /\ call.key = 99 /\ call.value = 3
  /\ Shape(treeI.mem, treeI.root)
       = <<98, 2, <<97, 1, <<>>, <<>>>>, <<100, 4, <<99, 3, <<>>, <<>>>>, <<>>>>>>
  /\ Shape(treeR.mem, treeR.root) = Shape(treeI.mem, treeI.root)
  /\ IterPreorder(treeI.mem, treeI.root)
       = << <<98, 2>>, <<97, 1>>, <<100, 4>>, <<99, 3>> >>

\* ====================================================== hash-table claims
\* the item addresses of a chain, first to last
RECURSIVE ChainOf(_, _)
ChainOf(H, cell) ==
  IF cell = NULL THEN <<>> ELSE <<cell>> \o ChainOf(H, H.items[cell].next)

ChainSet(H, index) ==
  LET c == ChainOf(H, H.table[index]) IN {c[j] : j \in 1..Len(c)}

\* the entries of the table: the items some bucket's chain holds
Entries(H) == UNION {ChainSet(H, i) : i \in DOMAIN H.table}

\* the characters of an entry's key
KeyOf(H, e) == Content(H, H.items[e].key)

\* C3: right after ht_insert(k, v), ht_get called with any string whose
\* content equals that of k (the caller's string object or another one)
\* returns a reference to a value, and the value is v.
C3_GetReturnsLatest ==
  call.op = "ht_insert" =>
    \A p \in KeyPtrs(ht) :
      Content(ht, p) = Content(ht, call.key) =>
        /\ ht_get(ht, HT_SIZE, p) # NULL
        /\ ht.items[ht_get(ht, HT_SIZE, p)].value = call.value

\* C4: no two entries of the table hold keys with equal content.
C4_KeysUnique ==
  \A a \in Entries(ht) : \A b \in Entries(ht) :
    a # b => KeyOf(ht, a) # KeyOf(ht, b)

\* C5: ht_search(k) returns an entry exactly when the chain of bucket
\* get_hash(k) holds an entry whose key has the same content as k.
C5_SearchByContent ==
  \A p \in KeyPtrs(ht) :
    (ht_search(ht, HT_SIZE, p) # NULL) <=>
      (\E e \in ChainSet(ht, get_hash(Content(ht, p), HT_SIZE)) :
         KeyOf(ht, e) = Content(ht, p))

\* C6: after ht_delete(k) no entry whose key has the content of k remains,
\* every other entry keeps its key, value and place in its chain, and a
\* ht_delete of a key the table does not hold changes nothing.
C6_Step ==
  call'.op = "ht_delete" =>
    LET k == Content(ht, call'.key)
        Others(c) == SelectSeq(c, LAMBDA e : KeyOf(ht, e) # k)
    IN /\ \A e \in Entries(ht') : KeyOf(ht', e) # k
       /\ \A i \in DOMAIN ht.table :
            /\ ChainOf(ht', ht'.table[i]) = Others(ChainOf(ht, ht.table[i]))
            /\ \A e \in ChainSet(ht', i) :
                 /\ KeyOf(ht', e) = KeyOf(ht, e)
                 /\ ht'.items[e].value = ht.items[e].value

C6_DeleteRemovesEntry == [][C6_Step]_vars

\* C7: a ht_delete that removes an entry frees the entry and its key copy,
\* each once; after ht_delete_all no entry and no key copy is allocated;
\* nothing is ever freed twice.
C7_DeleteReleasesBoth ==
  /\ ~ht.dfree
  /\ call.op = "ht_delete" =>
       Cardinality(ht.freedKeys) = Cardinality(ht.freedItems)
  /\ call.op = "ht_delete_all" => LiveItems(ht) = {} /\ LiveKeys(ht) = {}

\* C8: after ht_delete_all every bucket head is NULL as after ht_init, every
\* entry that was in the table and every key copy of such an entry has been
\* freed, once, and ht_search finds no key.
C8_Step ==
  call'.op = "ht_delete_all" =>
    /\ ht'.table = HtEmpty.table
    /\ ht'.freedItems = Entries(ht)
    /\ ht'.freedKeys = {ht.items[e].key : e \in Entries(ht)}
    /\ \A e \in Entries(ht) : ~ht'.items[e].used /\ ~ht'.keys[ht.items[e].key].used
    /\ ~ht'.dfree
    /\ \A p \in KeyPtrs(ht') : ht_search(ht', HT_SIZE, p) = NULL

C8_DeleteAllEmptiesTable == [][C8_Step]_vars

\* ht_delete_all has just emptied a table that held two entries or more
C8_Witness ==
  /\ call.op = "ht_delete_all"
  /\ Cardinality(ht.freedItems) >= 2
  /\ Cardinality(ht.freedKeys) >= 2
  /\ Entries(ht) = {}

\* ============================================= claims about both containers
\* the tree is as the call found it: same root, same nodes with the same
\* fields, nothing freed, nothing allocated
TreeUntouched(before, after) ==
  /\ after.root = before.root
  /\ after.mem = before.mem
  /\ after.freed = {}
  /\ ~after.dfree

\* the table is as the call found it: same buckets, same items, same key
\* copies, so nothing the call allocated is still allocated
TableUntouched(before, after) ==
  /\ after.table = before.table
  /\ after.items = before.items
  /\ after.keys = before.keys
  /\ after.freedKeys = {}
  /\ ~after.dfree

\* C18: when an allocation fails inside bst_insert (either implementation)
\* or inside ht_insert (the item, or the copy of the key), the container is
\* exactly as before the call and nothing allocated during the call stays
\* allocated: the item allocated before a failing key copy is freed.
C18_Step ==
  /\ call'.op = "bst_insert_nomem"
       => TreeUntouched(treeI, treeI') /\ TreeUntouched(treeR, treeR')
  /\ call'.op = "ht_insert_nomem_item"
       => TableUntouched(ht, ht') /\ ht'.freedItems = {}
  /\ call'.op = "ht_insert_nomem_key"
       => /\ TableUntouched(ht, ht')
          /\ ht'.freedItems = {HtMallocItem(HtEnter(ht))} \ {NULL}

C18_AllocationFailureLeavesContainer == [][C18_Step]_vars

\* the key copy failed on a table that holds entries and still has a free
\* item: the item was allocated and freed by the call
C18_Witness ==
  /\ call.op = "ht_insert_nomem_key"
  /\ LiveItems(ht) # {}
  /\ Cardinality(ht.freedItems) = 1
  /\ ht.freedItems \cap LiveItems(ht) = {}

\* the operations called with a NULL handle
BstNullOps ==
  {"bst_init_null", "bst_insert_null", "bst_delete_null", "bst_dispose_null",
   "bst_replace_by_rightmost_null"}
HtNullOps ==
  {"ht_init_null", "ht_search_null", "ht_insert_null", "ht_get_null",
   "ht_delete_null", "ht_delete_all_null"}

\* C19: an operation given a NULL tree handle or a NULL table handle
\* changes nothing in the trees or the table, frees and allocates nothing,
\* dereferences nothing, and ht_search and ht_get return NULL.
C19_Step ==
  /\ call'.op \in BstNullOps =>
       /\ TreeUntouched(treeI, treeI') /\ ~treeI'.segv
       /\ TreeUntouched(treeR, treeR') /\ ~treeR'.segv
       /\ bstLast' = bstLast /\ ht' = ht /\ htLast' = htLast
  /\ call'.op \in HtNullOps =>
       /\ TableUntouched(ht, ht') /\ ht'.freedItems = {} /\ ~ht'.segv
       /\ call'.ret = NULL
       /\ htLast' = htLast /\ treeI' = treeI /\ treeR' = treeR /\ bstLast' = bstLast

C19_NullHandleIsNoOp == [][C19_Step]_vars

\* bst_delete was called with a NULL handle and the key of a node of a tree
\* of at least two nodes
C19_Witness ==
  /\ call.op = "bst_delete_null"
  /\ call.key \in DOMAIN bstLast
  /\ Cardinality(Allocated(treeI.mem)) >= 2

\* the sum of the byte ordinals (0..255) of a string
RECURSIVE OrdSum(_)
OrdSum(bytes) == IF bytes = <<>> THEN 0 ELSE Head(bytes) + OrdSum(Tail(bytes))

\* C20: get_hash(key) is (1 + the sum of the byte ordinals of the key)
\* modulo HT_SIZE and lies in 0..HT_SIZE-1, for keys with bytes 128..255 as
\* for the others.
C20_HashIsOrdinalSumModSize ==
  call.op = "get_hash" =>
    /\ call.ret = (1 + OrdSum(call.key)) % HT_SIZE
    /\ call.ret \in 0..(HT_SIZE - 1)

\* C21: an entry's key is a string object of its own, never one of the
\* caller's, so when the caller overwrites or releases a string it passed
\* as a key, every entry keeps its key.
C21_Step ==
  /\ \A e \in LiveItems(ht') : ht'.items[e].key \in LiveKeys(ht')
  /\ call'.op \in {"caller_write", "caller_release"} =>
       /\ LiveItems(ht') = LiveItems(ht)
       /\ \A e \in LiveItems(ht) : KeyOf(ht', e) = KeyOf(ht, e)

C21_EntryOwnsKeyCopy == [][C21_Step]_vars

\* the caller has overwritten a string after inserting it: an entry holds
\* the characters the string had, the string holds others
C21_Witness ==
  /\ call.op = "caller_write"
  /\ ht.caller[call.key] # CallerStr[call.key]
  /\ \E e \in LiveItems(ht) : KeyOf(ht, e) = CallerStr[call.key]

TraverseOps == {"bst_preorder", "bst_inorder", "bst_postorder"}

\* C22: bst_preorder, bst_inorder and bst_postorder of both variants write
\* no key, value or link and free no node, they come to an end, and the
\* same traversal called again right after prints the same sequence.
C22_Step ==
  call'.op \in TraverseOps =>
    /\ TreeUntouched(treeI, treeI') /\ TreeUntouched(treeR, treeR')
    /\ call'.value = 1 /\ call'.valueR = 1
    /\ call.op = call'.op => call'.ret = call.ret /\ call'.retR = call.retR

Holds(T, key) == key \in SubtreeKeys(T.mem, T.root)

\* between T and T2 the value of the node holding key was set and nothing
\* else was written, allocated or freed
OverwritePost(T, T2, key, value) ==
  /\ T2.root = T.root
  /\ T2.mem = [T.mem EXCEPT ![NodeOf(T, key)].value = value]
  /\ T2.freed = {} /\ ~T2.dfree

\* C23: bst_insert(k, v) on a tree that holds a node with key k, on both
\* trees, sets the value of that node and writes nothing else: no node is
\* allocated, and shape, keys, links and the other values stay.
C23_Step ==
  (call'.op = "bst_insert" /\ Holds(treeI, call'.key)) =>
    /\ OverwritePost(treeI, treeI', call'.key, call'.value)
    /\ Holds(treeR, call'.key)
    /\ OverwritePost(treeR, treeR', call'.key, call'.value)

C23_InsertExistingOverwritesValue == [][C23_Step]_vars

\* bst_insert(98, 0) was the last call and 98 is at the root above two
\* children, so its node was there before the call
C23_Witness ==
  /\ call.op = "bst_insert" /\ call.key = 98 /\ call.value = 0
  /\ treeI.root # NULL /\ treeI.mem[treeI.root].key = 98
  /\ treeI.mem[treeI.root].value = 0
  /\ treeI.mem[treeI.root].left # NULL /\ treeI.mem[treeI.root].right # NULL
  /\ Shape(treeR.mem, treeR.root) = Shape(treeI.mem, treeI.root)

\* the link at which the search descent for key ends in a tree that does
\* not hold it: the root handle or a left or right link, holding NULL
RECURSIVE DescentEnd(_, _, _)
DescentEnd(T, slot, key) ==
  LET p == Load(T, slot)
  IN IF p = NULL THEN slot
     ELSE IF key < T.mem[p].key THEN DescentEnd(T, SlotOf(p, "left"), key)
     ELSE DescentEnd(T, SlotOf(p, "right"), key)

\* between T and T2 one node was allocated, a leaf holding key and value,
\* and the link where the descent for key ended was set to it; no other
\* field of any node was written and nothing was freed
LeafPost(T, T2, key, value) ==
  \E a \in DOMAIN T.mem :
    /\ ~T.mem[a].used
    /\ Allocated(T2.mem) = Allocated(T.mem) \cup {a}
    /\ T2.mem[a] = [used |-> TRUE, key |-> key, value |-> value,
                    left |-> NULL, right |-> NULL]
    /\ LET linked == Store(T, DescentEnd(T, RootSlot, key), a)
       IN /\ T2.root = linked.root
          /\ \A b \in DOMAIN T.mem \ {a} : T2.mem[b] = linked.mem[b]
    /\ T2.freed = {} /\ ~T2.dfree

\* C24: bst_insert(k, v) of a key that is not in the tree, on both trees,
\* adds exactly one node, a leaf holding (k, v), at the empty link where the
\* search descent for k ended (the root handle of an empty tree); the nodes
\* that existed keep their keys, values and other links.
C24_Step ==
  (call'.op = "bst_insert" /\ ~Holds(treeI, call'.key)) =>
    /\ LeafPost(treeI, treeI', call'.key, call'.value)
    /\ ~Holds(treeR, call'.key)
    /\ LeafPost(treeR, treeR', call'.key, call'.value)

C24_InsertNewAddsLeaf == [][C24_Step]_vars

\* 99 was inserted last, as the left child of 100, below the root 98 that
\* has 97 on its left: the descent went right, then left
C24_Witness ==
  /\ call.op = "bst_insert" /\ call.key = 99
  /\ Shape(treeI.mem, treeI.root)
       = <<98, 2, <<97, 1, <<>>, <<>>>>, <<100, 4, <<99, 3, <<>>, <<>>>>, <<>>>>>>
  /\ Shape(treeR.mem, treeR.root) = Shape(treeI.mem, treeI.root)
  /\ treeI.mem[NodeOf(treeI, 99)].left = NULL
  /\ treeI.mem[NodeOf(treeI, 99)].right = NULL

\* the link that holds the address of node a: the root handle, or the left
\* or right link of its parent
LinkTo(T, a) ==
  IF T.root = a THEN RootSlot
  ELSE LET parent == CHOOSE b \in SubtreeNodes(T.mem, T.root) :
                       T.mem[b].left = a \/ T.mem[b].right = a
       IN IF T.mem[parent].left = a THEN SlotOf(parent, "left")
          ELSE SlotOf(parent, "right")

\* the number of children of the node holding key
KidCount(T, key) ==
  BoolToInt(T.mem[NodeOf(T, key)].left # NULL)
    + BoolToInt(T.mem[NodeOf(T, key)].right # NULL)

\* between T and T2 the node holding key, which has at most one child, was
\* freed and the link that held it was set to its child (to NULL when it
\* has none); no other field of any other node was written and no other
\* node was freed
BypassPost(T, T2, key) ==
  LET target == NodeOf(T, key)
      child == IF T.mem[target].left # NULL THEN T.mem[target].left
               ELSE T.mem[target].right
      linked == Store(T, LinkTo(T, target), child)
  IN /\ T2.root = linked.root
     /\ \A b \in DOMAIN T.mem \ {target} : T2.mem[b] = linked.mem[b]
     /\ ~T2.mem[target].used
     /\ T2.freed = {target} /\ ~T2.dfree

\* C25: bst_delete(k) of a node with no child clears the link that held the
\* node, of a node with one child sets that link to the child; on both
\* trees exactly that node is freed, and every other node keeps key, value
\* and links, so the child's subtree is as it was.
C25_Step ==
  (call'.op = "bst_delete" /\ Holds(treeI, call'.key)
     /\ KidCount(treeI, call'.key) < 2) =>
    /\ BypassPost(treeI, treeI', call'.key)
    /\ Holds(treeR, call'.key) /\ KidCount(treeR, call'.key) < 2
    /\ BypassPost(treeR, treeR', call'.key)

C25_DeleteLeafOrOneChild == [][C25_Step]_vars

\* a node with exactly one child, a right child, was deleted from trees of
\* three nodes
C25_Witness ==
  /\ call.op = "bst_delete" /\ call.kids = 1
  /\ Cardinality(treeI.freed) = 1 /\ Cardinality(treeR.freed) = 1
  /\ Cardinality(SubtreeNodes(treeI.mem, treeI.root)) = 2
  /\ Shape(treeR.mem, treeR.root) = Shape(treeI.mem, treeI.root)
  /\ \A k \in SubtreeKeys(treeI.mem, treeI.root) : k > call.key

\* the node with the greatest key below p
MaxNode(T, p) ==
  CHOOSE a \in SubtreeNodes(T.mem, p) :
    \A b \in SubtreeNodes(T.mem, p) : T.mem[b].key <= T.mem[a].key

\* bst_delete(key) on T, which holds key, gave T2: one node was freed; when
\* the node holding key had two children the branch for two children was
\* taken once, by the top-level call, and the freed node is the in-order
\* predecessor, else the branch was not taken and the freed node is the
\* node that held key
OneNodeFreed(T, T2, key) ==
  LET target == NodeOf(T, key)
  IN /\ ~T2.dfree
     /\ Cardinality(Allocated(T2.mem)) = Cardinality(Allocated(T.mem)) - 1
     /\ IF KidCount(T, key) = 2
        THEN /\ T2.twoKids = 1
             /\ T2.freed = {MaxNode(T, T.mem[target].left)}
        ELSE /\ T2.twoKids = 0
             /\ T2.freed = {target}

\* C26: the bst_delete that bst_replace_by_rightmost calls for the in-order
\* predecessor finds it and removes it as a node without children or with
\* one child, never as a node with two children, so on both trees a
\* bst_delete of a key in the tree frees exactly one node.
C26_Step ==
  (call'.op = "bst_delete" /\ Holds(treeI, call'.key)) =>
    /\ OneNodeFreed(treeI, treeI', call'.key)
    /\ Holds(treeR, call'.key)
    /\ OneNodeFreed(treeR, treeR', call'.key)

C26_NestedDeleteFreesPredecessor == [][C26_Step]_vars

\* 'd' was deleted at the root of the full tree after 'c': its predecessor
\* 'b' had a left child, was freed and its key is now at the root
C26_Witness ==
  /\ call.op = "bst_delete" /\ call.key = 100 /\ call.kids = 2
  /\ treeI.twoKids = 1 /\ treeR.twoKids = 1
  /\ Shape(treeI.mem, treeI.root)
       = <<98, 2, <<97, 1, <<>>, <<>>>>,
                  <<102, 6, <<101, 5, <<>>, <<>>>>, <<103, 7, <<>>, <<>>>>>>>>
  /\ Shape(treeR.mem, treeR.root) = Shape(treeI.mem, treeI.root)
  /\ Cardinality(treeI.freed) = 1 /\ Cardinality(treeR.freed) = 1

\* the non-NULL addresses held by the links of node a
Children(T, a) == {T.mem[a].left, T.mem[a].right} \ {NULL}

\* the nodes reached from the set S in at most n steps along links
RECURSIVE ReachFrom(_, _, _)
ReachFrom(T, S, n) ==
  LET next == S \cup UNION {Children(T, a) : a \in S}
  IN IF n = 0 \/ next = S THEN S ELSE ReachFrom(T, next, n - 1)

\* the nodes reachable from the root handle
Reachable(T) ==
  ReachFrom(T, {T.root} \ {NULL}, Cardinality(DOMAIN T.mem))

\* the links that hold the address a: the root handle and the left and
\* right links of the reachable nodes
LinksTo(T, a) ==
  {s \in {RootSlot}
          \cup {SlotOf(b, side) : b \in Reachable(T), side \in {"left", "right"}} :
     Load(T, s) = a}

\* the nodes below the root handle form a tree
IsTree(T) ==
  /\ \A a \in Reachable(T) : T.mem[a].used
  /\ \A a \in Reachable(T) : Cardinality(LinksTo(T, a)) = 1
  /\ \A a \in Reachable(T) :
       a \notin ReachFrom(T, Children(T, a), Cardinality(DOMAIN T.mem))

\* C27: in every state reached by bst_insert and bst_delete the nodes
\* reachable from the root handle form a tree, in both variants: every node
\* is held by exactly one link, no node is reachable from itself, and no
\* link holds the address of a freed node.
C27_NodesFormTree == IsTree(treeI) /\ IsTree(treeR)

\* a node with two children was deleted and three nodes remain, held by the
\* root handle and two links
C27_Witness ==
  /\ call.op = "bst_delete" /\ call.kids = 2
  /\ Cardinality(Reachable(treeI)) = 3 /\ Cardinality(Reachable(treeR)) = 3
  /\ Cardinality(treeI.freed) = 1 /\ Cardinality(treeR.freed) = 1
  /\ Reachable(treeI) = Allocated(treeI.mem)

\* C29: ht_delete reads no field of an entry it has freed: when the call
\* returns, no read of a freed entry has happened.
C29_DeleteReadsNoFreedEntry ==
  call.op = "ht_delete" => ~ht.uaf

\* the loop states the four operations go through on the tree T: the state
\* after n turns, for every n up to the bound of the operation
Turns(T, k) == 0..(k * Cardinality(Allocated(T.mem)) + 1)

DisposeStates(T) ==
  {IterDisposeRun([T |-> T, rootPtr |-> T.root, stack |-> stack_init], n) :
     n \in Turns(T, 2)}

PreorderStates(T) ==
  {IterPreorderRun(T.mem, [tree |-> T.root, stack |-> stack_init, out |-> <<>>], n) :
     n \in Turns(T, 2)}

InorderStates(T) ==
  {IterInorderRun(T.mem, [tree |-> T.root, stack |-> stack_init, out |-> <<>>], n) :
     n \in Turns(T, 2)}

PostorderStates(T) ==
  {IterPostorderRun(T.mem, [tree |-> T.root, node_stack |-> stack_init,
                            bool_stack |-> stack_init, out |-> <<>>], n) :
     n \in Turns(T, 3)}

\* the next turn of the loop calls stack_bst_push (stack_bool_push) on a
\* stack that holds MAXSTACK items
DisposePushesOnFull(st) ==
  /\ st.rootPtr # NULL
  /\ st.T.mem[st.rootPtr].right # NULL
  /\ Len(st.stack) = MAXSTACK

LeftmostPushesOnFull(st) == st.tree # NULL /\ Len(st.stack) = MAXSTACK

PostorderPushesOnFull(mem, st) ==
  IF st.tree # NULL
  THEN Len(st.node_stack) = MAXSTACK \/ Len(st.bool_stack) = MAXSTACK
  ELSE /\ ~stack_empty(st.node_stack)
       /\ stack_top(st.bool_stack)
       /\ Len(stack_pop(st.bool_stack)) = MAXSTACK

\* C28: on every tree built with bst_insert, bst_preorder, bst_inorder,
\* bst_postorder and bst_dispose of the iterative variant never push on a
\* stack that already holds MAXSTACK items.
C28_StackNeverFull ==
  /\ \A st \in DisposeStates(treeI) : ~DisposePushesOnFull(st)
  /\ \A st \in PreorderStates(treeI) : ~LeftmostPushesOnFull(st)
  /\ \A st \in InorderStates(treeI) : ~LeftmostPushesOnFull(st)
  /\ \A st \in PostorderStates(treeI) : ~PostorderPushesOnFull(treeI.mem, st)

NoStackOps == {"bst_preorder_nomem", "bst_inorder_nomem", "bst_postorder_nomem",
               "bst_dispose_nomem"}

\* C30: when the allocation of a stack fails, bst_preorder, bst_inorder,
\* bst_postorder and bst_dispose of the iterative variant return without a
\* stack operation on the absent stack, having printed nothing, and leave
\* every node and the root handle as they were.
C30_Step ==
  call'.op \in NoStackOps =>
    /\ ~treeI'.segv
    /\ call'.value = 1
    /\ call'.op # "bst_dispose_nomem" => call'.ret = <<>>
    /\ treeI'.mem = treeI.mem /\ treeI'.root = treeI.root
    /\ treeI'.freed = {}

C30_NoStackLeavesTree == [][C30_Step]_vars

\* no entry of the table holds a key with the content of the string at p
Absent(H, p) == \A e \in Entries(H) : KeyOf(H, e) # Content(H, p)

\* C31: ht_insert of a key no entry holds puts one new entry, with that key
\* and the value, first in the chain of bucket get_hash(key), the bucket's
\* former chain behind it in its former order; the chains of all other
\* buckets and the former entries are as they were.
C31_Step ==
  call'.op = "ht_insert" /\ Absent(ht, call'.key) =>
    LET index == get_hash(Content(ht, call'.key), HT_SIZE)
        chain == ChainOf(ht', ht'.table[index])
    IN /\ Len(chain) >= 1
       /\ chain[1] \notin Entries(ht)
       /\ KeyOf(ht', chain[1]) = Content(ht, call'.key)
       /\ ht'.items[chain[1]].value = call'.value
       /\ Tail(chain) = ChainOf(ht, ht.table[index])
       /\ \A i \in DOMAIN ht.table :
            i # index => ChainOf(ht', ht'.table[i]) = ChainOf(ht, ht.table[i])
       /\ \A e \in Entries(ht) :
            /\ ht'.items[e] = ht.items[e]
            /\ KeyOf(ht', e) = KeyOf(ht, e)

C31_InsertPrependsToBucket == [][C31_Step]_vars

\* "ba" was inserted into the bucket that held "ab": the chain is the new
\* entry and behind it the entry of "ab"
C31_Witness ==
  /\ call.op = "ht_insert" /\ Content(ht, call.key) = <<98, 97>>
  /\ LET chain == ChainOf(ht, ht.table[get_hash(<<98, 97>>, HT_SIZE)])
     IN /\ Len(chain) = 2
        /\ KeyOf(ht, chain[1]) = <<98, 97>>
        /\ KeyOf(ht, chain[2]) = <<97, 98>>
  /\ \E i \in DOMAIN ht.table :
       i # get_hash(<<98, 97>>, HT_SIZE) /\ ht.table[i] # NULL

\* C32: every entry on the chain of bucket i has a key with get_hash = i,
\* and the index ht_insert and ht_delete computed for their key is one of
\* 0..MAX_HT_SIZE-1.
C32_EntriesInOwnBucket ==
  /\ \A i \in DOMAIN ht.table : \A e \in ChainSet(ht, i) :
       get_hash(KeyOf(ht, e), HT_SIZE) = i
  /\ call.op \in {"ht_insert", "ht_delete"} =>
       get_hash(Content(ht, call.key), HT_SIZE) \in 0..(MAX_HT_SIZE - 1)

\* what a bst_search call that returned r = <<returned, *value>> may have
\* done to the slot: on false it holds what it held, on true the value of
\* the node that holds the key
SlotPost(T, r, key, old) ==
  /\ r[1] = 0 => r[2] = old
  /\ r[1] = 1 => \E a \in SubtreeNodes(T.mem, T.root) :
                   T.mem[a].key = key /\ r[2] = T.mem[a].value
  /\ r[1] = 1 <=> Holds(T, key)

\* C34: bst_search of both variants writes no node and no link and frees
\* nothing; when it returns false the caller's value slot holds what it held
\* before the call, and when it returns true the slot holds the value of the
\* node with the key.
C34_Step ==
  call'.op = "bst_search" =>
    /\ TreeUntouched(treeI, treeI') /\ TreeUntouched(treeR, treeR')
    /\ SlotPost(treeI, call'.ret, call'.key, call'.value)
    /\ SlotPost(treeR, call'.retR, call'.key, call'.value)

C34_SearchWritesSlotOnlyOnFound == [][C34_Step]_vars

\* a search in a tree of two nodes for a key it does not hold returned false
\* and the slot still holds 9
C34_Witness ==
  /\ call.op = "bst_search" /\ call.value = 9
  /\ call.ret = <<0, 9>> /\ call.retR = <<0, 9>>
  /\ Cardinality(DOMAIN bstLast) = 2

\* C35: when bst_postorder of the iterative variant returns because the
\* allocation of the boolean stack failed, the node stack it allocated
\* before has been freed.
C35_PostorderFreesNodeStack ==
  call.op = "bst_postorder_nomem" /\ call.key = 2 => ~treeI.leak

\* the loop state of bst_postorder on the tree T after n turns
PostorderAt(T, n) ==
  IterPostorderRun(T.mem, [tree |-> T.root, node_stack |-> stack_init,
                           bool_stack |-> stack_init, out |-> <<>>], n)

\* for every turn, the node bst_leftmost_postorder calls stack_bst_push with
\* in that turn (NULL: the turn is one of the main loop, or the loop is over)
PushedAt(T) == [n \in Turns(T, 3) |-> PostorderAt(T, n).tree]

\* the stacks when the main loop tests its condition: as many flags as
\* nodes, each node but the last followed by its left child when its flag
\* is true (first visit) and by its right child when it is false
StacksAgree(mem, st) ==
  /\ Len(st.node_stack) = Len(st.bool_stack)
  /\ \A i \in 1..(Len(st.node_stack) - 1) :
       st.node_stack[i + 1] = IF st.bool_stack[i] THEN mem[st.node_stack[i]].left
                              ELSE mem[st.node_stack[i]].right

\* C36: during bst_postorder of the iterative variant, whenever the main
\* loop tests its condition the two stacks hold the same number of items and
\* the i-th flag tells whether the i-th node is on its first visit, and
\* stack_bst_push is called exactly once with every node of the tree.
C36_PostorderStacksInStep ==
  /\ \A st \in PostorderStates(treeI) :
       st.tree = NULL => StacksAgree(treeI.mem, st)
  /\ LET pushed == PushedAt(treeI)
     IN \A a \in Reachable(treeI) :
          Cardinality({n \in DOMAIN pushed : pushed[n] = a}) = 1

\* One turn of a descent loop of the iterative variant, on the pointer it
\* moves: the loops of bst_search, bst_insert and bst_delete go to the left
\* or to the right child until the pointer is NULL or at the key.
DescentStep(mem, p, key) ==
  IF p = NULL \/ mem[p].key = key THEN p
  ELSE IF key < mem[p].key THEN mem[p].left
  ELSE mem[p].right

RECURSIVE DescentRun(_, _, _, _)
DescentRun(mem, p, key, n) ==
  IF n = 0 THEN p
  ELSE IF n = 1 THEN DescentStep(mem, p, key)
  ELSE LET half == DescentRun(mem, p, key, n \div 2)
       IN IF half = NULL THEN half
          ELSE DescentRun(mem, half, key, n - (n \div 2))

\* One turn of a chain scan, on the pointer it moves: the loops of ht_search
\* and ht_delete go to the next entry until the pointer is NULL or at an
\* entry with the key.
ScanStep(H, cellElement, key) ==
  IF cellElement = NULL \/ H.items[cellElement].key = key THEN cellElement
  ELSE H.items[cellElement].next

RECURSIVE ScanRun(_, _, _, _)
ScanRun(H, cellElement, key, n) ==
  IF n = 0 THEN cellElement
  ELSE ScanRun(H, ScanStep(H, cellElement, key), key, n - 1)

\* the loops of the tree operations on T reach their exit within a number
\* of turns given by the number of nodes
TreeLoopsExit(T) ==
  LET N == Cardinality(Allocated(T.mem))
      pre == IterPreorderRun(T.mem,
               [tree |-> T.root, stack |-> stack_init, out |-> <<>>], 2 * N + 1)
      ino == IterInorderRun(T.mem,
               [tree |-> T.root, stack |-> stack_init, out |-> <<>>], 2 * N + 1)
      post == PostorderAt(T, 3 * N + 1)
      disp == IterDisposeRun([T |-> T, rootPtr |-> T.root, stack |-> stack_init],
                             2 * N + 1)
  IN /\ \A key \in Keys :
          LET p == DescentRun(T.mem, T.root, key, N)
          IN p = NULL \/ T.mem[p].key = key
     /\ \A key \in Keys : \A value \in ValuesOf(key) :
          IterInsertRun([T |-> Enter(T), prevRootPtr |-> NULL, rootPtr |-> T.root,
                         isDone |-> FALSE], key, value, N + 1).isDone
     /\ pre.tree = NULL /\ stack_empty(pre.stack)
     /\ ino.tree = NULL /\ stack_empty(ino.stack)
     /\ post.tree = NULL /\ stack_empty(post.node_stack)
     /\ disp.rootPtr = NULL /\ stack_empty(disp.stack)

\* the chain scans on the table H reach their exit within as many turns as
\* there are items
TableLoopsExit(H, size) ==
  \A key \in KeyPtrs(H) :
    LET cellElement == ScanRun(H, H.table[get_hash(Content(H, key), size)], key,
                               Cardinality(LiveItems(H)))
    IN cellElement = NULL \/ H.items[cellElement].key = key

\* C33: on every tree and every table the calls build, the descent loops of
\* bst_search, bst_insert and bst_delete, the chain scans of ht_search and
\* ht_delete and the stack loops of bst_preorder, bst_inorder, bst_postorder
\* and bst_dispose of the iterative variant reach their exit after a bounded
\* number of turns, the stack loops with an empty stack.
C33_LoopsReachExit ==
  TreeLoopsExit(treeI) /\ TableLoopsExit(ht, HT_SIZE)

\* a tree of three nodes on which bst_postorder ends with an empty stack,
\* having printed three nodes
C33_Witness ==
  /\ Cardinality(Allocated(treeI.mem)) = 3
  /\ Cardinality(Reachable(treeI)) = 3
  /\ LET post == PostorderAt(treeI, 10)
     IN post.tree = NULL /\ stack_empty(post.node_stack) /\ Len(post.out) = 3

====
